---- MODULE Spec2Model ----
(***************************************************************************)
(* Model of the tag-indexed Fibonacci heap of src/fibonacciHeap.go         *)
(* (type FibHeap, lines 184-710 of the file).                              *)
(*                                                                         *)
(* A heap is a record.  A node is identified by its tag: the index maps a  *)
(* tag to the node created for it by insert, and a node leaves the index   *)
(* when it is extracted, after which nothing refers to it (NoDeadRef).     *)
(* The per-node fields of `type node` are the functions parent, children,  *)
(* marked, degree, position, key, value and self of the heap record.       *)
(* A container/list list is the sequence of the nodes its elements hold;   *)
(* a list element is the pair of the node it holds and whether it is still *)
(* in its list.                                                            *)
(*                                                                         *)
(* A key is a float64 of the documented range (-inf, +inf] (Value.Key,     *)
(* Insert): the keys are the integers 0..MaxKey with their order, MaxKey    *)
(* standing for the largest key there is, and -inf is below all of them.   *)
(* NaN is outside the documented range and is not a key of the model.      *)
(***************************************************************************)
EXTENDS Integers, Sequences, FiniteSets, TLC

\* ------------------------------------------------------------------ bounds
MaxTag == 5
MaxKey == 2
MaxOps == 2
MaxUnion == 2
MaxBuild == 4
MaxNode == 17
MaxCut == 3
MaxNil == 4
MaxBin == 5
MaxAfter == 5

\* the tags a caller of the heap passes
Tags == 1..MaxTag
\* the nodes there can be at a time: a node is identified by its tag, and the
\* caller that grows a tall tree (SpecCut) has more tags than the others
Nodes == 1..MaxNode
\* the node whose tag is nil: a nil interface is a key a Go map takes, and a
\* Value whose Tag() returns nil puts its node under that key
NilTagNode == MaxNode + 1
AllNodes == Nodes \cup {NilTagNode}
Keys == 0..MaxKey
Degrees == 0..MaxTag

\* ------------------------------------------------------- values of the code
\* nil node pointer
Nil == 0
\* math.Inf(-1): smaller than every key
NegInf == 0 - 1
\* nil Value interface
NilValue == << >>
\* node.self: the list that holds the node's element; 0 names heap.roots,
\* a tag names the children list of that node
RootList == 0
\* nil *list.Element
NilElem == [n |-> Nil, live |-> FALSE]
\* error returns
NoErr == "nil"

\* a caller's Value object with its Tag() and Key()
MkValue(tag, key) == <<tag, key>>
ValueTag(v) == v[1]
ValueKey(v) == v[2]

\* heap.index[tag]: the key of the index a tag is, and the tag of a node
TagNode(tag) == IF tag = Nil THEN NilTagNode ELSE tag
NodeTag(n) == IF n = NilTagNode THEN Nil ELSE n

\* ------------------------------------------------------ container/list
Elem(n) == [n |-> n, live |-> TRUE]

InList(s, n) == \E i \in 1..Len(s) : s[i] = n

IndexOf(s, n) == CHOOSE i \in 1..Len(s) : s[i] = n /\ \A j \in 1..(i - 1) : s[j] # n

\* list.Remove of the element holding n
ListRemove(s, n) == SelectSeq(s, LAMBDA x : x # n)

\* list.Front
Front(s) == IF s = << >> THEN NilElem ELSE Elem(s[1])

\* Element.Next: nil for the last element and for an element removed from its list
ElemNext(s, e) ==
    IF ~e.live \/ ~InList(s, e.n) THEN NilElem
    ELSE IF IndexOf(s, e.n) = Len(s) THEN NilElem
    ELSE Elem(s[IndexOf(s, e.n) + 1])

\* ------------------------------------------------------------ the heap
NewFibHeap ==
    [roots       |-> << >>,
     index       |-> [t \in AllNodes |-> Nil],
     treeDegrees |-> [d \in Degrees |-> NilElem],
     min         |-> Nil,
     num         |-> 0,
     parent      |-> [t \in AllNodes |-> Nil],
     children    |-> [t \in AllNodes |-> << >>],
     marked      |-> [t \in AllNodes |-> FALSE],
     degree      |-> [t \in AllNodes |-> 0],
     position    |-> [t \in AllNodes |-> 0],
     key         |-> [t \in AllNodes |-> 0],
     value       |-> [t \in AllNodes |-> NilValue],
     self        |-> [t \in AllNodes |-> RootList]]

\* heap.roots.Remove(e): the element leaves the list; a bucket that still
\* holds the element now holds a removed element
RootsRemove(h, e) ==
    IF e.live /\ InList(h.roots, e.n)
    THEN [h EXCEPT !.roots = ListRemove(@, e.n),
                   !.treeDegrees = [d \in Degrees |->
                        IF @[d] = e THEN [n |-> e.n, live |-> FALSE] ELSE @[d]]]
    ELSE h

\* the node object of an extracted node is garbage: nothing refers to it
Forget(h, n) ==
    [h EXCEPT !.parent[n] = Nil, !.children[n] = << >>, !.marked[n] = FALSE,
              !.degree[n] = 0, !.position[n] = 0, !.key[n] = 0,
              !.value[n] = NilValue, !.self[n] = RootList]

linkKeepsSelf(h, parent, child) ==
    [h EXCEPT !.marked[child] = FALSE,
              !.parent[child] = parent,
              !.children[parent] = Append(@, child),
              !.degree[parent] = @ + 1]

link(h, parent, child) ==
    [h EXCEPT !.marked[child] = FALSE,
              !.parent[child] = parent,
              !.self[child] = parent,
              !.children[parent] = Append(@, child),
              !.degree[parent] = @ + 1]

smallerThanMinLarger(h, tree) == h.key[tree.n] > h.key[h.min]

\* resetMin: tree.key < heap.min.key
smallerThanMin(h, tree) == h.key[tree.n] < h.key[h.min]

\* the list a node's self element is in
ListOf(h, n) == IF h.self[n] = RootList THEN h.roots ELSE h.children[h.self[n]]

\* the loop of resetMin over the elements after heap.min.self
RECURSIVE resetMinScan(_, _, _)
resetMinScan(h, list, tree) ==
    IF tree = NilElem THEN h
    ELSE IF smallerThanMin(h, tree)
         THEN resetMinScan([h EXCEPT !.min = tree.n], list, ElemNext(list, tree))
         ELSE resetMinScan(h, list, ElemNext(list, tree))

resetMinFrontOnly(h) == [h EXCEPT !.min = Front(h.roots).n]

resetMin(h) ==
    LET h1 == [h EXCEPT !.min = Front(h.roots).n]
        list == ListOf(h1, h1.min)
    IN  resetMinScan(h1, list, ElemNext(list, Elem(h1.min)))

staysRootLarger(h, tree, anotherTree) == h.key[tree.n] >= h.key[anotherTree.n]

staysRootOnSmaller(h, tree, anotherTree) == h.key[tree.n] < h.key[anotherTree.n]

\* consolidate: tree.key <= anotherTree.key, tree stays a root and anotherTree
\* becomes its child
staysRoot(h, tree, anotherTree) == h.key[tree.n] <= h.key[anotherTree.n]

consolidateMergeOnce(h, tree) ==
    LET d == h.degree[tree.n]
        anotherTree == h.treeDegrees[d]
        h1 == [h EXCEPT !.treeDegrees[d] = NilElem]
    IN  IF anotherTree = NilElem THEN [heap |-> h, tree |-> tree]
        ELSE IF staysRoot(h, tree, anotherTree)
             THEN [heap |-> link(RootsRemove(h1, anotherTree), tree.n, anotherTree.n),
                   tree |-> tree]
             ELSE [heap |-> link(RootsRemove(h1, tree), anotherTree.n, tree.n),
                   tree |-> anotherTree]

\* the inner loop of consolidate: merge tree with the trees of its degree
RECURSIVE consolidateMerge(_, _)
consolidateMerge(h, tree) ==
    LET d == h.degree[tree.n]
        anotherTree == h.treeDegrees[d]
        h1 == [h EXCEPT !.treeDegrees[d] = NilElem]
    IN  IF anotherTree = NilElem THEN [heap |-> h, tree |-> tree]
        ELSE IF staysRoot(h, tree, anotherTree)
             THEN consolidateMerge(link(RootsRemove(h1, anotherTree), tree.n, anotherTree.n), tree)
             ELSE consolidateMerge(link(RootsRemove(h1, tree), anotherTree.n, tree.n), anotherTree)

\* the walk of consolidate over the root list
RECURSIVE consolidateWalk(_, _)
consolidateWalk(h, tree) ==
    IF tree = NilElem THEN h
    ELSE LET d == h.degree[tree.n]
         IN  IF h.treeDegrees[d] = NilElem
             THEN consolidateWalk([h EXCEPT !.treeDegrees[d] = tree, !.position[tree.n] = d],
                                  ElemNext(h.roots, tree))
             ELSE IF h.treeDegrees[d] = tree
             THEN consolidateWalk(h, ElemNext(h.roots, tree))
             ELSE LET r == consolidateMerge(h, tree)
                      d2 == r.heap.degree[r.tree.n]
                  IN  consolidateWalk([r.heap EXCEPT !.treeDegrees[d2] = r.tree,
                                                     !.position[r.tree.n] = d2],
                                      r.tree)

RECURSIVE consolidateWalkStaysOnRecorded(_, _, _, _)
consolidateWalkStaysOnRecorded(h, tree, steps, fuel) ==
    IF tree = NilElem THEN [heap |-> h, steps |-> steps, done |-> TRUE]
    ELSE IF fuel = 0 THEN [heap |-> h, steps |-> steps, done |-> FALSE]
    ELSE LET d == h.degree[tree.n]
         IN  IF h.treeDegrees[d] = NilElem
             THEN consolidateWalkStaysOnRecorded([h EXCEPT !.treeDegrees[d] = tree, !.position[tree.n] = d],
                                       ElemNext(h.roots, tree), steps + 1, fuel - 1)
             ELSE IF h.treeDegrees[d] = tree
             THEN consolidateWalkStaysOnRecorded(h, tree, steps + 1, fuel - 1)
             ELSE LET r == consolidateMerge(h, tree)
                      d2 == r.heap.degree[r.tree.n]
                  IN  consolidateWalkStaysOnRecorded([r.heap EXCEPT !.treeDegrees[d2] = r.tree,
                                                          !.position[r.tree.n] = d2],
                                           r.tree, steps + 1, fuel - 1)

\* the walk of consolidate with its passes counted: steps is the number of
\* passes of the loop made so far, and done is FALSE when the walk has not
\* reached the end of the root list within fuel more passes
RECURSIVE consolidateWalkSteps(_, _, _, _)
consolidateWalkSteps(h, tree, steps, fuel) ==
    IF tree = NilElem THEN [heap |-> h, steps |-> steps, done |-> TRUE]
    ELSE IF fuel = 0 THEN [heap |-> h, steps |-> steps, done |-> FALSE]
    ELSE LET d == h.degree[tree.n]
         IN  IF h.treeDegrees[d] = NilElem
             THEN consolidateWalkSteps([h EXCEPT !.treeDegrees[d] = tree, !.position[tree.n] = d],
                                       ElemNext(h.roots, tree), steps + 1, fuel - 1)
             ELSE IF h.treeDegrees[d] = tree
             THEN consolidateWalkSteps(h, ElemNext(h.roots, tree), steps + 1, fuel - 1)
             ELSE LET r == consolidateMerge(h, tree)
                      d2 == r.heap.degree[r.tree.n]
                  IN  consolidateWalkSteps([r.heap EXCEPT !.treeDegrees[d2] = r.tree,
                                                          !.position[r.tree.n] = d2],
                                           r.tree, steps + 1, fuel - 1)

\* the first loop of consolidate: clear the bucket every root was recorded in
consolidateClear(h) ==
    [h EXCEPT !.treeDegrees = [d \in Degrees |->
        IF \E i \in 1..Len(h.roots) : h.position[h.roots[i]] = d THEN NilElem ELSE @[d]]]

consolidateNoWalk(h) == resetMin(consolidateClear(h))

consolidate(h) ==
    LET h1 == consolidateClear(h)
    IN  resetMin(consolidateWalk(h1, Front(h1.roots)))

insertMinOnTie(h, tag, key, value) ==
    IF key = NegInf
    THEN [heap |-> h, err |-> "Negative infinity key is reserved for internal usage"]
    ELSE IF h.index[tag] # Nil
    THEN [heap |-> h, err |-> "Duplicate tag is not allowed"]
    ELSE LET h1 == [h EXCEPT !.parent[tag] = Nil, !.children[tag] = << >>,
                             !.marked[tag] = FALSE, !.degree[tag] = 0,
                             !.position[tag] = 0, !.key[tag] = key,
                             !.value[tag] = value, !.self[tag] = RootList,
                             !.roots = Append(@, tag),
                             !.index[tag] = tag,
                             !.num = @ + 1]
         IN  [heap |-> [h1 EXCEPT !.min = IF h.min = Nil \/ h.key[h.min] >= key
                                           THEN tag ELSE @],
              err |-> NoErr]

insertCountsFirst(h, tag, key, value) ==
    IF key = NegInf
    THEN [heap |-> h, err |-> "Negative infinity key is reserved for internal usage"]
    ELSE IF h.index[tag] # Nil
    THEN [heap |-> [h EXCEPT !.num = @ + 1], err |-> "Duplicate tag is not allowed"]
    ELSE LET h1 == [h EXCEPT !.parent[tag] = Nil, !.children[tag] = << >>,
                             !.marked[tag] = FALSE, !.degree[tag] = 0,
                             !.position[tag] = 0, !.key[tag] = key,
                             !.value[tag] = value, !.self[tag] = RootList,
                             !.roots = Append(@, tag),
                             !.index[tag] = tag,
                             !.num = @ + 1]
         IN  [heap |-> [h1 EXCEPT !.min = IF h.min = Nil \/ h.key[h.min] > key
                                           THEN tag ELSE @],
              err |-> NoErr]

insertOverwrites(h, tag, key, value) ==
    IF key = NegInf
    THEN [heap |-> h, err |-> "Negative infinity key is reserved for internal usage"]
    ELSE IF h.index[tag] # Nil
    THEN [heap |-> [h EXCEPT !.key[tag] = key, !.value[tag] = value],
          err |-> "Duplicate tag is not allowed"]
    ELSE LET h1 == [h EXCEPT !.parent[tag] = Nil, !.children[tag] = << >>,
                             !.marked[tag] = FALSE, !.degree[tag] = 0,
                             !.position[tag] = 0, !.key[tag] = key,
                             !.value[tag] = value, !.self[tag] = RootList,
                             !.roots = Append(@, tag),
                             !.index[tag] = tag,
                             !.num = @ + 1]
         IN  [heap |-> [h1 EXCEPT !.min = IF h.min = Nil \/ h.key[h.min] > key
                                           THEN tag ELSE @],
              err |-> NoErr]

insertKeepsCount(h, tag, key, value) ==
    IF key = NegInf
    THEN [heap |-> h, err |-> "Negative infinity key is reserved for internal usage"]
    ELSE IF h.index[tag] # Nil
    THEN [heap |-> h, err |-> "Duplicate tag is not allowed"]
    ELSE LET h1 == [h EXCEPT !.parent[tag] = Nil, !.children[tag] = << >>,
                             !.marked[tag] = FALSE, !.degree[tag] = 0,
                             !.position[tag] = 0, !.key[tag] = key,
                             !.value[tag] = value, !.self[tag] = RootList,
                             !.roots = Append(@, tag),
                             !.index[tag] = tag]
         IN  [heap |-> [h1 EXCEPT !.min = IF h.min = Nil \/ h.key[h.min] > key
                                           THEN tag ELSE @],
              err |-> NoErr]

insert(h, tag, key, value) ==
    IF key = NegInf
    THEN [heap |-> h, err |-> "Negative infinity key is reserved for internal usage"]
    ELSE IF h.index[tag] # Nil
    THEN [heap |-> h, err |-> "Duplicate tag is not allowed"]
    ELSE LET h1 == [h EXCEPT !.parent[tag] = Nil, !.children[tag] = << >>,
                             !.marked[tag] = FALSE, !.degree[tag] = 0,
                             !.position[tag] = 0, !.key[tag] = key,
                             !.value[tag] = value, !.self[tag] = RootList,
                             !.roots = Append(@, tag),
                             !.index[tag] = tag,
                             !.num = @ + 1]
         IN  [heap |-> [h1 EXCEPT !.min = IF h.min = Nil \/ h.key[h.min] > key
                                           THEN tag ELSE @],
              err |-> NoErr]

\* the loop of extractMin over the children of the minimum
RECURSIVE promoteChildren(_, _, _)
promoteChildren(h, cs, i) ==
    IF i > Len(cs) THEN h
    ELSE promoteChildren([h EXCEPT !.parent[cs[i]] = Nil,
                                   !.self[cs[i]] = RootList,
                                   !.roots = Append(@, cs[i])], cs, i + 1)

extractMinKeepsIndex(h) ==
    LET min == h.min
        h1 == promoteChildren(h, h.children[min], 1)
        h2 == IF h1.self[min] = RootList THEN RootsRemove(h1, Elem(min)) ELSE h1
        h3 == [h2 EXCEPT !.treeDegrees[h2.position[min]] = NilElem,
                         !.num = @ - 1]
    IN  [heap |-> IF h3.num = 0 THEN [h3 EXCEPT !.min = Nil] ELSE consolidate(h3),
         tag |-> min, key |-> h.key[min], value |-> h.value[min]]

extractMinKeepsMin(h) ==
    LET min == h.min
        h1 == promoteChildren(h, h.children[min], 1)
        h2 == IF h1.self[min] = RootList THEN RootsRemove(h1, Elem(min)) ELSE h1
        h3 == [h2 EXCEPT !.treeDegrees[h2.position[min]] = NilElem,
                         !.index[min] = Nil,
                         !.num = @ - 1]
        h4 == Forget(h3, min)
    IN  [heap |-> IF h4.num = 0 THEN h4 ELSE consolidate(h4),
         tag |-> min, key |-> h.key[min], value |-> h.value[min]]

extractMinEmptiesEarly(h) ==
    LET min == h.min
        h1 == promoteChildren(h, h.children[min], 1)
        h2 == IF h1.self[min] = RootList THEN RootsRemove(h1, Elem(min)) ELSE h1
        h3 == [h2 EXCEPT !.treeDegrees[h2.position[min]] = NilElem,
                         !.index[min] = Nil,
                         !.num = @ - 1]
        h4 == Forget(h3, min)
    IN  [heap |-> IF h4.num <= 1 THEN [h4 EXCEPT !.min = Nil] ELSE consolidate(h4),
         tag |-> min, key |-> h.key[min], value |-> h.value[min]]

extractMinKeepsBucket(h) ==
    LET min == h.min
        h1 == promoteChildren(h, h.children[min], 1)
        h2 == IF h1.self[min] = RootList THEN RootsRemove(h1, Elem(min)) ELSE h1
        h3 == [h2 EXCEPT !.index[min] = Nil,
                         !.num = @ - 1]
        h4 == Forget(h3, min)
    IN  [heap |-> IF h4.num = 0 THEN [h4 EXCEPT !.min = Nil] ELSE consolidate(h4),
         tag |-> min, key |-> h.key[min], value |-> h.value[min]]

\* extractMin returns the removed node: its tag, key and value
extractMin(h) ==
    LET min == h.min
        h1 == promoteChildren(h, h.children[min], 1)
        h2 == IF h1.self[min] = RootList THEN RootsRemove(h1, Elem(min)) ELSE h1
        h3 == [h2 EXCEPT !.treeDegrees[h2.position[min]] = NilElem,
                         !.index[min] = Nil,
                         !.num = @ - 1]
        h4 == Forget(h3, min)
    IN  [heap |-> IF h4.num = 0 THEN [h4 EXCEPT !.min = Nil] ELSE consolidate(h4),
         tag |-> min, key |-> h.key[min], value |-> h.value[min]]

\* extractMin up to its call of consolidate: the heap consolidate starts from
extractMinUnlink(h) ==
    LET min == h.min
        h1 == promoteChildren(h, h.children[min], 1)
        h2 == IF h1.self[min] = RootList THEN RootsRemove(h1, Elem(min)) ELSE h1
        h3 == [h2 EXCEPT !.treeDegrees[h2.position[min]] = NilElem,
                         !.index[min] = Nil,
                         !.num = @ - 1]
    IN  Forget(h3, min)

cutKeepsMark(h, n) ==
    LET p == h.parent[n]
    IN  [h EXCEPT !.children[p] = IF h.self[n] = p THEN ListRemove(@, n) ELSE @,
                  !.degree[p] = @ - 1,
                  !.parent[n] = Nil,
                  !.self[n] = RootList,
                  !.roots = Append(@, n)]

cutLosesNode(h, n) ==
    LET p == h.parent[n]
    IN  [h EXCEPT !.children[p] = IF h.self[n] = p THEN ListRemove(@, n) ELSE @,
                  !.degree[p] = @ - 1,
                  !.parent[n] = Nil,
                  !.marked[n] = FALSE,
                  !.self[n] = RootList]

cutKeepsParent(h, n) ==
    LET p == h.parent[n]
    IN  [h EXCEPT !.children[p] = IF h.self[n] = p THEN ListRemove(@, n) ELSE @,
                  !.degree[p] = @ - 1,
                  !.marked[n] = FALSE,
                  !.self[n] = RootList,
                  !.roots = Append(@, n)]

cut(h, n) ==
    LET p == h.parent[n]
    IN  [h EXCEPT !.children[p] = IF h.self[n] = p THEN ListRemove(@, n) ELSE @,
                  !.degree[p] = @ - 1,
                  !.parent[n] = Nil,
                  !.marked[n] = FALSE,
                  !.self[n] = RootList,
                  !.roots = Append(@, n)]

cascadingCutOnce(h, n) ==
    IF h.parent[n] # Nil
    THEN IF ~h.marked[n]
         THEN [h EXCEPT !.marked[n] = TRUE]
         ELSE cut(h, n)
    ELSE h

cascadingCutMarksOnly(h, n) ==
    IF h.parent[n] # Nil THEN [h EXCEPT !.marked[n] = TRUE] ELSE h

RECURSIVE cascadingCut(_, _)
cascadingCut(h, n) ==
    IF h.parent[n] # Nil
    THEN IF ~h.marked[n]
         THEN [h EXCEPT !.marked[n] = TRUE]
         ELSE cascadingCut(cut(h, n), h.parent[n])
    ELSE h

\* cascadingCut with its cuts counted: cuts is the number of calls of cut made
\* so far, and done is FALSE when the recursion has not stopped within fuel
\* more calls
RECURSIVE cascadingCutCuts(_, _, _, _)
cascadingCutCuts(h, n, cuts, fuel) ==
    IF h.parent[n] # Nil
    THEN IF ~h.marked[n]
         THEN [heap |-> [h EXCEPT !.marked[n] = TRUE], cuts |-> cuts, done |-> TRUE]
         ELSE IF fuel = 0 THEN [heap |-> h, cuts |-> cuts, done |-> FALSE]
         ELSE cascadingCutCuts(cut(h, n), h.parent[n], cuts + 1, fuel - 1)
    ELSE [heap |-> h, cuts |-> cuts, done |-> TRUE]

setKeyValueOnly(h, n, value, key) == [h EXCEPT !.value[n] = value]

setKeyOnly(h, n, value, key) == [h EXCEPT !.key[n] = key]

\* decreaseKey, increaseKey: n.key = key; n.value = value
setKey(h, n, value, key) == [h EXCEPT !.key[n] = key, !.value[n] = value]

notSmallerStrict(h, n, key) == key > h.key[n]

\* decreaseKey: key >= n.key
notSmaller(h, n, key) == key >= h.key[n]

belowParentReversed(h, n) == h.key[n] > h.key[h.parent[n]]

\* decreaseKey: n.key < n.parent.key
belowParent(h, n) == h.key[n] < h.key[h.parent[n]]

belowMinReversed(h, n) == h.parent[n] = Nil /\ h.key[n] > h.key[h.min]

\* decreaseKey: n.parent == nil && n.key < heap.min.key
belowMin(h, n) == h.parent[n] = Nil /\ h.key[n] < h.key[h.min]

decreaseKey(h, n, value, key) ==
    IF notSmaller(h, n, key)
    THEN [heap |-> h, err |-> "New key is not smaller than current key"]
    ELSE LET h1 == setKey(h, n, value, key)
             h2 == IF h1.parent[n] # Nil /\ belowParent(h1, n)
                   THEN cascadingCut(cut(h1, n), h1.parent[n])
                   ELSE h1
         IN  [heap |-> IF belowMin(h2, n) THEN [h2 EXCEPT !.min = n] ELSE h2,
              err |-> NoErr]

RECURSIVE cutLargerChildren(_, _, _, _)
cutLargerChildren(h, n, cs, i) ==
    IF i > Len(cs) THEN h
    ELSE IF h.key[cs[i]] > h.key[n]
         THEN cutLargerChildren(cascadingCut(cut(h, cs[i]), n), n, cs, i + 1)
         ELSE cutLargerChildren(h, n, cs, i + 1)

\* the loop of increaseKey over the children n had when the loop started
RECURSIVE cutSmallerChildren(_, _, _, _)
cutSmallerChildren(h, n, cs, i) ==
    IF i > Len(cs) THEN h
    ELSE IF h.key[cs[i]] < h.key[n]
         THEN cutSmallerChildren(cascadingCut(cut(h, cs[i]), n), n, cs, i + 1)
         ELSE cutSmallerChildren(h, n, cs, i + 1)

notLargerStrict(h, n, key) == key < h.key[n]

\* increaseKey: key <= n.key
notLarger(h, n, key) == key <= h.key[n]

isNotMin(h, n) == h.min # n

\* increaseKey: heap.min == n
isMin(h, n) == h.min = n

increaseKeyKeepsMin(h, n, value, key) ==
    IF notLarger(h, n, key)
    THEN [heap |-> h, err |-> "New key is not larger than current key"]
    ELSE LET h1 == setKey(h, n, value, key)
         IN  [heap |-> cutSmallerChildren(h1, n, h1.children[n], 1), err |-> NoErr]

increaseKey(h, n, value, key) ==
    IF notLarger(h, n, key)
    THEN [heap |-> h, err |-> "New key is not larger than current key"]
    ELSE LET h1 == setKey(h, n, value, key)
             h2 == cutSmallerChildren(h1, n, h1.children[n], 1)
         IN  [heap |-> IF isMin(h2, n) THEN resetMin(h2) ELSE h2, err |-> NoErr]

\* ExtractMinValue: the removed value, nil on an empty heap
ExtractMinValue(h) ==
    IF h.num = 0 THEN [heap |-> h, value |-> NilValue]
    ELSE [heap |-> extractMin(h).heap, value |-> extractMin(h).value]

deleteNodeNoDecrease(h, n) ==
    ExtractMinValue(h).heap

deleteNodeLazy(h, n) ==
    LET h1 == extractMinUnlink(decreaseKey(h, n, h.value[n], NegInf).heap)
    IN  IF h1.num = 0 THEN [h1 EXCEPT !.min = Nil] ELSE resetMin(h1)

deleteNode(h, n) ==
    ExtractMinValue(decreaseKey(h, n, h.value[n], NegInf).heap).heap

\* ------------------------------------------------------ the public methods
\* what a method returns: its error, or its tag and key, or its value
Ret(err, tag, key, value) == [err |-> err, tag |-> tag, key |-> key, value |-> value]
RetErr(err) == Ret(err, Nil, NegInf, NilValue)

Insert(h, tag, key) ==
    IF tag = Nil THEN [heap |-> h, ret |-> RetErr("Input tag is nil")]
    ELSE [heap |-> insert(h, tag, key, NilValue).heap,
          ret |-> RetErr(insert(h, tag, key, NilValue).err)]

InsertValue(h, value) ==
    IF value = NilValue THEN [heap |-> h, ret |-> RetErr("Input value is nil")]
    ELSE [heap |-> insert(h, TagNode(ValueTag(value)), ValueKey(value), value).heap,
          ret |-> RetErr(insert(h, TagNode(ValueTag(value)), ValueKey(value), value).err)]

Minimum(h) ==
    IF h.num = 0 THEN [heap |-> h, ret |-> Ret(NoErr, Nil, NegInf, NilValue)]
    ELSE [heap |-> h, ret |-> Ret(NoErr, NodeTag(h.min), h.key[h.min], NilValue)]

MinimumValue(h) ==
    IF h.num = 0 THEN [heap |-> h, ret |-> Ret(NoErr, Nil, NegInf, NilValue)]
    ELSE [heap |-> h, ret |-> Ret(NoErr, Nil, NegInf, h.value[h.min])]

ExtractMin(h) ==
    IF h.num = 0 THEN [heap |-> h, ret |-> Ret(NoErr, Nil, NegInf, NilValue)]
    ELSE [heap |-> extractMin(h).heap,
          ret |-> Ret(NoErr, NodeTag(extractMin(h).tag), extractMin(h).key, NilValue)]

DecreaseKeyTakesNegInf(h, tag, key) ==
    IF tag = Nil THEN [heap |-> h, ret |-> RetErr("Input tag is nil")]
    ELSE IF h.index[tag] # Nil
    THEN [heap |-> decreaseKey(h, h.index[tag], NilValue, key).heap,
          ret |-> RetErr(decreaseKey(h, h.index[tag], NilValue, key).err)]
    ELSE [heap |-> h, ret |-> RetErr("Value is not found")]

DecreaseKey(h, tag, key) ==
    IF tag = Nil THEN [heap |-> h, ret |-> RetErr("Input tag is nil")]
    ELSE IF key = NegInf
    THEN [heap |-> h, ret |-> RetErr("Negative infinity key is reserved for internal usage")]
    ELSE IF h.index[tag] # Nil
    THEN [heap |-> decreaseKey(h, h.index[tag], NilValue, key).heap,
          ret |-> RetErr(decreaseKey(h, h.index[tag], NilValue, key).err)]
    ELSE [heap |-> h, ret |-> RetErr("Value is not found")]

DecreaseKeyValue(h, value) ==
    IF value = NilValue THEN [heap |-> h, ret |-> RetErr("Input value is nil")]
    ELSE IF ValueKey(value) = NegInf
    THEN [heap |-> h, ret |-> RetErr("Negative infinity key is reserved for internal usage")]
    ELSE IF h.index[TagNode(ValueTag(value))] # Nil
    THEN [heap |-> decreaseKey(h, h.index[TagNode(ValueTag(value))], value, ValueKey(value)).heap,
          ret |-> RetErr(decreaseKey(h, h.index[TagNode(ValueTag(value))], value, ValueKey(value)).err)]
    ELSE [heap |-> h, ret |-> RetErr("Value is not found")]

IncreaseKey(h, tag, key) ==
    IF tag = Nil THEN [heap |-> h, ret |-> RetErr("Input tag is nil")]
    ELSE IF key = NegInf
    THEN [heap |-> h, ret |-> RetErr("Negative infinity key is reserved for internal usage")]
    ELSE IF h.index[tag] # Nil
    THEN [heap |-> increaseKey(h, h.index[tag], NilValue, key).heap,
          ret |-> RetErr(increaseKey(h, h.index[tag], NilValue, key).err)]
    ELSE [heap |-> h, ret |-> RetErr("Value is not found")]

IncreaseKeyValue(h, value) ==
    IF value = NilValue THEN [heap |-> h, ret |-> RetErr("Input value is nil")]
    ELSE IF ValueKey(value) = NegInf
    THEN [heap |-> h, ret |-> RetErr("Negative infinity key is reserved for internal usage")]
    ELSE IF h.index[TagNode(ValueTag(value))] # Nil
    THEN [heap |-> increaseKey(h, h.index[TagNode(ValueTag(value))], value, ValueKey(value)).heap,
          ret |-> RetErr(increaseKey(h, h.index[TagNode(ValueTag(value))], value, ValueKey(value)).err)]
    ELSE [heap |-> h, ret |-> RetErr("Value is not found")]

\* Num: the number of values in the heap
Num(h) == [heap |-> h, num |-> h.num]

GetTagRemoves(h, tag) ==
    IF tag # Nil /\ h.index[tag] # Nil
    THEN [heap |-> deleteNode(h, h.index[tag]),
          ret |-> Ret(NoErr, Nil, h.key[h.index[tag]], NilValue)]
    ELSE [heap |-> h, ret |-> Ret(NoErr, Nil, NegInf, NilValue)]

\* (the lookup does not test the tag: a nil tag finds the node InsertValue put
\* under it)
GetTag(h, tag) ==
    IF h.index[TagNode(tag)] # Nil
    THEN [heap |-> h, ret |-> Ret(NoErr, Nil, h.key[h.index[TagNode(tag)]], NilValue)]
    ELSE [heap |-> h, ret |-> Ret(NoErr, Nil, NegInf, NilValue)]

GetValue(h, tag) ==
    IF h.index[TagNode(tag)] # Nil
    THEN [heap |-> h, ret |-> Ret(NoErr, Nil, NegInf, h.value[h.index[TagNode(tag)]])]
    ELSE [heap |-> h, ret |-> Ret(NoErr, Nil, NegInf, NilValue)]

ExtractTag(h, tag) ==
    IF h.index[TagNode(tag)] # Nil
    THEN [heap |-> deleteNode(h, h.index[TagNode(tag)]),
          ret |-> Ret(NoErr, Nil, h.key[h.index[TagNode(tag)]], NilValue)]
    ELSE [heap |-> h, ret |-> Ret(NoErr, Nil, NegInf, NilValue)]

ExtractValue(h, tag) ==
    IF h.index[TagNode(tag)] # Nil
    THEN [heap |-> deleteNode(h, h.index[TagNode(tag)]),
          ret |-> Ret(NoErr, Nil, NegInf, h.value[h.index[TagNode(tag)]])]
    ELSE [heap |-> h, ret |-> Ret(NoErr, Nil, NegInf, NilValue)]

DeleteNoError(h, tag) ==
    IF tag = Nil THEN [heap |-> h, ret |-> RetErr("Input tag is nil")]
    ELSE IF h.index[tag] = Nil THEN [heap |-> h, ret |-> RetErr(NoErr)]
    ELSE [heap |-> ExtractValue(h, tag).heap, ret |-> RetErr(NoErr)]

Delete(h, tag) ==
    IF tag = Nil THEN [heap |-> h, ret |-> RetErr("Input tag is nil")]
    ELSE IF h.index[tag] = Nil THEN [heap |-> h, ret |-> RetErr("Tag is not found")]
    ELSE [heap |-> ExtractValue(h, tag).heap, ret |-> RetErr(NoErr)]

DeleteValue(h, value) ==
    IF value = NilValue THEN [heap |-> h, ret |-> RetErr("Input value is nil")]
    ELSE IF h.index[TagNode(ValueTag(value))] = Nil THEN [heap |-> h, ret |-> RetErr("Value is not found")]
    ELSE [heap |-> ExtractValue(h, ValueTag(value)).heap, ret |-> RetErr(NoErr)]

\* the second loop of Union: nodes are the entries of anotherHeap.index, each
\* with its tag and its node's value, in the order the range loop visits them;
\* the error InsertValue returns is dropped
unionInsertFirstOnly(h, nodes) ==
    IF nodes = << >> THEN h
    ELSE InsertValue(h, Head(nodes).value).heap

RECURSIVE unionInsert(_, _)
unionInsert(h, nodes) ==
    IF nodes = << >> THEN h
    ELSE unionInsert(InsertValue(h, Head(nodes).value).heap, Tail(nodes))

UnionChecksFirstOnly(h, nodes) ==
    IF nodes # << >> /\ h.index[nodes[1].tag] # Nil
    THEN [heap |-> h, ret |-> RetErr("Duplicate tag is found in the target heap ")]
    ELSE [heap |-> unionInsert(h, nodes), ret |-> RetErr(NoErr)]

UnionChecksLast(h, nodes) ==
    IF \E i \in 1..Len(nodes) : h.index[nodes[i].tag] # Nil
    THEN [heap |-> unionInsert(h, nodes),
          ret |-> RetErr("Duplicate tag is found in the target heap ")]
    ELSE [heap |-> unionInsert(h, nodes), ret |-> RetErr(NoErr)]

Union(h, nodes) ==
    IF \E i \in 1..Len(nodes) : h.index[TagNode(nodes[i].tag)] # Nil
    THEN [heap |-> h, ret |-> RetErr("Duplicate tag is found in the target heap ")]
    ELSE [heap |-> unionInsert(h, nodes), ret |-> RetErr(NoErr)]

\* ------------------------------------------------------------ the program
\* heap    the heap
\* op      the call whose result the caller holds: the method, and where the
\*         node of its tag argument was in the forest when it was called
\* ret     the result of that call
\* calls   the number of calls made so far
\* api     the family of methods the caller uses: the tag/key methods or the
\*         Value methods (the forest never depends on a node's value: value is
\*         only stored, returned and handed back by deleteNode)
\* shadow  the caller's record of what it put in the heap: the key it last
\*         gave each tag it inserted and has not taken out, NegInf for the rest
\* seen    the keys the extraction test has seen: the key Minimum reported
\*         before the first extraction and the keys extracted since
\* anotherHeap  the second heap of the caller that unions two heaps it has
\*         built (SpecUnion); elsewhere the heap handed to Union is drawn at
\*         the call and this one stays as NewFibHeap made it
\* script  the calls of the caller that runs a written example (SpecScript);
\*         empty elsewhere
VARIABLES heap, op, ret, calls, api, shadow, seen, anotherHeap, script

vars == <<heap, op, ret, calls, api, shadow, seen, anotherHeap, script>>

ByKey == "tag/key"
ByValue == "Value"

\* keys a caller can pass
InKeys == Keys \cup {NegInf}

\* tags a caller can pass
InTags == Tags \cup {Nil}

\* the Value a caller passes: nil, or a value with a tag and a key
InValue(tag, key) == IF tag = Nil THEN NilValue ELSE MkValue(tag, key)

LiveTags(h) == {t \in Nodes : h.index[t] # Nil}

\* the tags a caller inserts: a tag that is in the heap, or the first that is not
\* (a tag is an opaque map key, the code never compares two tags for order)
InsertTags ==
    {t \in Tags : heap.index[t] # Nil \/ \A u \in 1..(t - 1) : heap.index[u] # Nil}

\* where the node of a tag is in the forest
PositionOf(h, tag) ==
    IF tag = Nil THEN "none"
    ELSE IF h.index[tag] = Nil THEN "absent"
    ELSE IF h.parent[h.index[tag]] = Nil THEN "root"
    ELSE IF h.children[h.index[tag]] = << >> THEN "leaf"
    ELSE "inner"

Idle == [name |-> "idle", at |-> "none"]

NoSeen == [min |-> NegInf, keys |-> << >>, n |-> 0]

Init ==
    /\ heap = NewFibHeap
    /\ op = Idle
    /\ ret = RetErr(NoErr)
    /\ calls = 0
    /\ api \in {ByKey, ByValue}
    /\ shadow = [t \in Nodes |-> NegInf]
    /\ seen = NoSeen
    /\ anotherHeap = NewFibHeap
    /\ script = << >>

\* what the caller records after a call, from the arguments and the result
Record(name, tag, key, r) ==
    IF name \in {"Insert", "InsertValue", "DecreaseKey", "DecreaseKeyValue",
                 "IncreaseKey", "IncreaseKeyValue"}
    THEN IF r.err = NoErr THEN [shadow EXCEPT ![tag] = key] ELSE shadow
    ELSE IF name \in {"Delete", "DeleteValue"}
    THEN IF r.err = NoErr THEN [shadow EXCEPT ![tag] = NegInf] ELSE shadow
    ELSE IF name = "ExtractMin"
    THEN IF r.tag # Nil THEN [shadow EXCEPT ![r.tag] = NegInf] ELSE shadow
    ELSE IF name = "ExtractMinValue"
    THEN IF r.value # NilValue THEN [shadow EXCEPT ![ValueTag(r.value)] = NegInf] ELSE shadow
    ELSE IF name = "ExtractTag"
    THEN IF r.key # NegInf THEN [shadow EXCEPT ![tag] = NegInf] ELSE shadow
    ELSE IF name = "ExtractValue"
    THEN IF r.value # NilValue THEN [shadow EXCEPT ![tag] = NegInf] ELSE shadow
    ELSE shadow

\* the caller calls a method and receives its result
Apply(family, name, tag, key, r) ==
    /\ op.name = "idle"
    /\ api = family
    /\ heap' = r.heap
    /\ op' = [name |-> name, at |-> PositionOf(heap, tag)]
    /\ ret' = r.ret
    /\ shadow' = Record(name, tag, key, r.ret)
    /\ UNCHANGED <<api, anotherHeap, script>>

Call(family, name, tag, key, r) ==
    /\ calls < MaxOps
    /\ calls' = calls + 1
    /\ Apply(family, name, tag, key, r)
    /\ UNCHANGED seen

InsertStep(tag, key) == Call(ByKey, "Insert", tag, key, Insert(heap, tag, key))
InsertValueStep(tag, key) ==
    Call(ByValue, "InsertValue", tag, key, InsertValue(heap, InValue(tag, key)))
\* Minimum is the one tag/key method a caller of the Value methods calls too
MinimumStep == Call(api, "Minimum", Nil, NegInf, Minimum(heap))
MinimumValueStep == Call(ByValue, "MinimumValue", Nil, NegInf, MinimumValue(heap))
ExtractMinStep == Call(ByKey, "ExtractMin", Nil, NegInf, ExtractMin(heap))
ExtractMinValueStep ==
    Call(ByValue, "ExtractMinValue", Nil, NegInf,
         [heap |-> ExtractMinValue(heap).heap,
          ret |-> Ret(NoErr, Nil, NegInf, ExtractMinValue(heap).value)])
DecreaseKeyStep(tag, key) == Call(ByKey, "DecreaseKey", tag, key, DecreaseKey(heap, tag, key))
DecreaseKeyValueStep(tag, key) ==
    Call(ByValue, "DecreaseKeyValue", tag, key, DecreaseKeyValue(heap, InValue(tag, key)))
IncreaseKeyStep(tag, key) == Call(ByKey, "IncreaseKey", tag, key, IncreaseKey(heap, tag, key))
IncreaseKeyValueStep(tag, key) ==
    Call(ByValue, "IncreaseKeyValue", tag, key, IncreaseKeyValue(heap, InValue(tag, key)))
GetTagStep(tag) == Call(ByKey, "GetTag", tag, NegInf, GetTag(heap, tag))
GetValueStep(tag) == Call(ByValue, "GetValue", tag, NegInf, GetValue(heap, tag))
ExtractTagStep(tag) == Call(ByKey, "ExtractTag", tag, NegInf, ExtractTag(heap, tag))
ExtractValueStep(tag) == Call(ByValue, "ExtractValue", tag, NegInf, ExtractValue(heap, tag))
DeleteStep(tag) == Call(ByKey, "Delete", tag, NegInf, Delete(heap, tag))
DeleteValueStep(tag) ==
    Call(ByValue, "DeleteValue", tag, NegInf, DeleteValue(heap, InValue(tag, 0)))

\* the index of a heap handed to Union: at most MaxUnion nodes with different
\* tags, in any order, each put there by Insert (no value, written as the key
\* NegInf here) or, when the caller uses the Value methods, by InsertValue (a
\* value with the tag and a key); the tags are tags of this heap or the first
\* tags that are not
UnionTags ==
    {t \in Tags : heap.index[t] # Nil
                  \/ Cardinality({u \in 1..(t - 1) : heap.index[u] = Nil}) < MaxUnion}

AnotherNode ==
    [tag : UnionTags, key : IF api = ByKey THEN {NegInf} ELSE Keys \cup {NegInf}]

AnotherValue(node) == IF node.key = NegInf THEN NilValue ELSE MkValue(node.tag, node.key)

AnotherIndex(nodes) == [i \in 1..Len(nodes) |-> [tag |-> nodes[i].tag, value |-> AnotherValue(nodes[i])]]

\* (only the sizes UnionStep can take are drawn)
AnotherSizes == {n \in 0..MaxUnion : op.name = "idle" /\ calls + 1 + n <= MaxOps}

AnotherHeaps ==
    {nodes \in UNION {[1..n -> AnotherNode] : n \in AnotherSizes} :
        \A i, j \in 1..Len(nodes) : nodes[i].tag = nodes[j].tag => i = j}

\* what the caller records after a Union: the nodes InsertValue accepted
RECURSIVE RecordUnion(_, _, _)
RecordUnion(sh, h, nodes) ==
    IF nodes = << >> THEN sh
    ELSE LET r == InsertValue(h, Head(nodes).value)
         IN  RecordUnion(IF r.ret.err = NoErr
                         THEN [sh EXCEPT ![Head(nodes).tag] = ValueKey(Head(nodes).value)]
                         ELSE sh,
                         r.heap, Tail(nodes))

\* a Union counts as one call and one more for each InsertValue it makes
UnionStep(nodes) ==
    /\ calls + 1 + Len(nodes) <= MaxOps
    /\ calls' = calls + 1 + Len(nodes)
    /\ op.name = "idle"
    /\ heap' = Union(heap, AnotherIndex(nodes)).heap
    /\ op' = [name |-> "Union", at |-> "none"]
    /\ ret' = Union(heap, AnotherIndex(nodes)).ret
    /\ shadow' = IF ret'.err = NoErr
                 THEN RecordUnion(shadow, heap, AnotherIndex(nodes)) ELSE shadow
    /\ UNCHANGED <<api, seen, anotherHeap, script>>

\* the caller is done with the result and goes on to its next call
Return ==
    /\ op.name # "idle"
    /\ op' = Idle
    /\ ret' = RetErr(NoErr)
    /\ UNCHANGED <<heap, calls, api, shadow, seen, anotherHeap, script>>

Next ==
    \/ Return
    \/ \E tag \in InsertTags \cup {Nil}, key \in InKeys : InsertStep(tag, key)
    \/ \E tag \in InsertTags \cup {Nil}, key \in InKeys : InsertValueStep(tag, key)
    \/ MinimumStep
    \/ MinimumValueStep
    \/ ExtractMinStep
    \/ ExtractMinValueStep
    \/ \E tag \in InTags, key \in InKeys : DecreaseKeyStep(tag, key)
    \/ \E tag \in InTags, key \in InKeys : DecreaseKeyValueStep(tag, key)
    \/ \E tag \in InTags, key \in InKeys : IncreaseKeyStep(tag, key)
    \/ \E tag \in InTags, key \in InKeys : IncreaseKeyValueStep(tag, key)
    \/ \E tag \in InTags : GetTagStep(tag)
    \/ \E tag \in InTags : GetValueStep(tag)
    \/ \E tag \in InTags : ExtractTagStep(tag)
    \/ \E tag \in InTags : ExtractValueStep(tag)
    \/ \E tag \in InTags : DeleteStep(tag)
    \/ \E tag \in InTags : DeleteValueStep(tag)
    \/ \E nodes \in AnotherHeaps : UnionStep(nodes)

\* the heap a caller starts from: a new heap, or the heap the tests of
\* DecreaseKey prepare before they change keys (src/fibonacciHeap_test.go,
\* "when call DecreaseKey api with a smaller key"): every tag inserted, with
\* the insert method of the caller, and the minimum extracted, which leaves
\* trees with nodes below their roots
SetUpKeys == {[i \in Tags |-> 1], [i \in Tags |-> i % (MaxKey + 1)]}

RECURSIVE SetUpInserts(_, _, _, _)
SetUpInserts(h, family, keys, i) ==
    IF i > MaxTag THEN h
    ELSE SetUpInserts(IF family = ByKey
                      THEN Insert(h, i, keys[i]).heap
                      ELSE InsertValue(h, MkValue(i, keys[i])).heap,
                      family, keys, i + 1)

SetUp(family, keys) == ExtractMin(SetUpInserts(NewFibHeap, family, keys, 1)).heap

InitSetUp ==
    /\ api \in {ByKey, ByValue}
    /\ heap \in {NewFibHeap} \cup {SetUp(api, keys) : keys \in SetUpKeys}
    /\ op = Idle
    /\ ret = RetErr(NoErr)
    /\ calls = 0
    /\ shadow = [t \in Nodes |-> GetTag(heap, t).ret.key]
    /\ seen = NoSeen
    /\ anotherHeap = NewFibHeap
    /\ script = << >>

Spec == InitSetUp /\ [][Next]_vars

\* the key GetTag reports for a tag
Found(h, tag) == GetTag(h, tag).ret.key

\* ------------------------------------------------ the extraction test
\* src/fibonacciHeap_test.go, "when call ExtractMin api, it should extract the
\* minimum value inserted": inserts, then one Minimum, then as many extractions
\* as there were successful inserts
Inserted == {t \in Nodes : shadow[t] # NegInf}

KeyOf(r) == IF r.value # NilValue THEN ValueKey(r.value) ELSE r.key

TestInsert(tag, key) ==
    /\ seen.n = 0
    /\ Apply(ByKey, "Insert", tag, key, Insert(heap, tag, key))
    /\ UNCHANGED <<calls, seen>>

TestInsertValue(tag, key) ==
    /\ seen.n = 0
    /\ Apply(ByValue, "InsertValue", tag, key, InsertValue(heap, MkValue(tag, key)))
    /\ UNCHANGED <<calls, seen>>

TestMinimum ==
    /\ seen.n = 0
    /\ Inserted # {}
    /\ \/ Apply(ByKey, "Minimum", Nil, NegInf, Minimum(heap))
       \/ Apply(ByValue, "MinimumValue", Nil, NegInf, MinimumValue(heap))
    /\ seen' = [min |-> KeyOf(ret'), keys |-> << >>, n |-> Cardinality(Inserted)]
    /\ UNCHANGED calls

TestExtractMin ==
    /\ seen.n # 0
    /\ Len(seen.keys) < seen.n
    /\ \/ Apply(ByKey, "ExtractMin", Nil, NegInf, ExtractMin(heap))
       \/ Apply(ByValue, "ExtractMinValue", Nil, NegInf,
                [heap |-> ExtractMinValue(heap).heap,
                 ret |-> Ret(NoErr, Nil, NegInf, ExtractMinValue(heap).value)])
    /\ seen' = [seen EXCEPT !.keys = Append(@, KeyOf(ret'))]
    /\ UNCHANGED calls

NextTest ==
    \/ Return
    \/ \E tag \in InsertTags, key \in InKeys : TestInsert(tag, key)
    \/ \E tag \in InsertTags, key \in InKeys : TestInsertValue(tag, key)
    \/ TestMinimum
    \/ TestExtractMin

SpecTest == Init /\ [][NextTest]_vars

\* ------------------------------------------------ the union of two heaps
\* src/fibonacciHeap_test.go, "Union": the caller builds two heaps, heap and
\* anotherHeap, and then calls heap.Union(anotherHeap).  It builds them with
\* the tag/key methods, with the Value methods, or with both.
Mixed == "tag/key and Value"

InitUnion ==
    /\ heap = NewFibHeap
    /\ op = Idle
    /\ ret = RetErr(NoErr)
    /\ calls = 0
    /\ api \in {ByKey, ByValue, Mixed}
    /\ shadow = [t \in Nodes |-> NegInf]
    /\ seen = NoSeen
    /\ anotherHeap = NewFibHeap
    /\ script = << >>

Dest == "heap"
Source == "anotherHeap"

\* the tags the caller of Union uses: a tag that is in one of the heaps, or the
\* first that is in neither
BuildTags ==
    {t \in Tags : \/ heap.index[t] # Nil \/ anotherHeap.index[t] # Nil
                  \/ \A u \in 1..(t - 1) : heap.index[u] # Nil \/ anotherHeap.index[u] # Nil}

\* a call that builds one of the two heaps: the caller goes on when the call
\* has succeeded, and keeps no result
Build(family, which, r) ==
    /\ op.name = "idle"
    /\ calls < MaxBuild
    /\ api \in {family, Mixed}
    /\ r.ret.err = NoErr
    /\ calls' = calls + 1
    /\ IF which = Dest
       THEN heap' = r.heap /\ UNCHANGED anotherHeap
       ELSE anotherHeap' = r.heap /\ UNCHANGED heap
    /\ UNCHANGED <<op, ret, api, shadow, seen, script>>

HeapOf(which) == IF which = Dest THEN heap ELSE anotherHeap

BuildInsert(which, tag, key) == Build(ByKey, which, Insert(HeapOf(which), tag, key))
BuildInsertValue(which, tag, key) ==
    Build(ByValue, which, InsertValue(HeapOf(which), MkValue(tag, key)))
BuildDecreaseKey(which, tag, key) ==
    Build(ByKey, which, DecreaseKey(HeapOf(which), tag, key))
BuildDecreaseKeyValue(which, tag, key) ==
    Build(ByValue, which, DecreaseKeyValue(HeapOf(which), MkValue(tag, key)))
BuildIncreaseKey(which, tag, key) ==
    Build(ByKey, which, IncreaseKey(HeapOf(which), tag, key))
BuildIncreaseKeyValue(which, tag, key) ==
    Build(ByValue, which, IncreaseKeyValue(HeapOf(which), MkValue(tag, key)))
BuildExtractMin(which) ==
    /\ HeapOf(which).num # 0
    /\ Build(api, which, ExtractMin(HeapOf(which)))

\* anotherHeap.index as a range loop can visit it: the tag and the value of
\* every node of the heap, in any order
IndexOrders(h) ==
    {[i \in 1..h.num |-> [tag |-> order[i], value |-> h.value[h.index[order[i]]]]] :
        order \in {o \in [1..h.num -> LiveTags(h)] :
                      \A i, j \in 1..h.num : o[i] = o[j] => i = j}}

UnionHeapsDrains(nodes) ==
    /\ op.name = "idle"
    /\ calls' = calls + 1
    /\ heap' = Union(heap, nodes).heap
    /\ op' = [name |-> "Union", at |-> "none"]
    /\ ret' = Union(heap, nodes).ret
    /\ anotherHeap' = IF ret'.err = NoErr THEN NewFibHeap ELSE anotherHeap
    /\ UNCHANGED <<api, shadow, seen, script>>

\* heap.Union(anotherHeap)
UnionHeaps(nodes) ==
    /\ op.name = "idle"
    /\ calls' = calls + 1
    /\ heap' = Union(heap, nodes).heap
    /\ op' = [name |-> "Union", at |-> "none"]
    /\ ret' = Union(heap, nodes).ret
    /\ UNCHANGED <<api, shadow, seen, anotherHeap, script>>

Whiches == {Dest, Source}

NextUnion ==
    \/ \E which \in Whiches, tag \in BuildTags, key \in Keys : BuildInsert(which, tag, key)
    \/ \E which \in Whiches, tag \in BuildTags, key \in Keys : BuildInsertValue(which, tag, key)
    \/ \E which \in Whiches, tag \in Tags, key \in Keys : BuildDecreaseKey(which, tag, key)
    \/ \E which \in Whiches, tag \in Tags, key \in Keys : BuildDecreaseKeyValue(which, tag, key)
    \/ \E which \in Whiches, tag \in Tags, key \in Keys : BuildIncreaseKey(which, tag, key)
    \/ \E which \in Whiches, tag \in Tags, key \in Keys : BuildIncreaseKeyValue(which, tag, key)
    \/ \E which \in Whiches : BuildExtractMin(which)
    \/ \E nodes \in (IF op.name = "idle" THEN IndexOrders(anotherHeap) ELSE {}) :
          UnionHeaps(nodes)

SpecUnion == InitUnion /\ [][NextUnion]_vars

\* ------------------------------------------------- the written examples
\* a call of a script: a method, and the tag and the key it is given
ScriptCall(name, tag, key) == [name |-> name, tag |-> tag, key |-> key]

\* spec.md, Scenario: insert tags {1:10, 2:20, 3:5}; Minimum(); ExtractMin();
\* Minimum(); DecreaseKey(2, 1); Minimum()
Scenario(k1, k2, k3, k4) ==
    << ScriptCall("Insert", 1, k1), ScriptCall("Insert", 2, k2),
       ScriptCall("Insert", 3, k3), ScriptCall("Minimum", Nil, NegInf),
       ScriptCall("ExtractMin", Nil, NegInf), ScriptCall("Minimum", Nil, NegInf),
       ScriptCall("DecreaseKey", 2, k4), ScriptCall("Minimum", Nil, NegInf) >>

ScenarioKeys == {1, 5, 10, 20}

\* the students of the example of src/README.md are the tags of their names
John == 1
Tom == 2
Jessica == 3
Amy == 4

\* src/README.md, Example, main(): an age is a key in tenths of a year; the
\* example changes the age of the value GetValue returned and hands that value
\* to IncreaseKeyValue or DecreaseKeyValue, which read its new key
Example(john, tom, jessica, amy, older, younger) ==
    << ScriptCall("InsertValue", John, john), ScriptCall("InsertValue", Tom, tom),
       ScriptCall("InsertValue", Jessica, jessica), ScriptCall("InsertValue", Amy, amy),
       ScriptCall("Minimum", Nil, NegInf),
       ScriptCall("GetValue", John, NegInf),
       ScriptCall("IncreaseKeyValue", John, older),
       ScriptCall("ExtractMin", Nil, NegInf),
       ScriptCall("ExtractMin", Nil, NegInf),
       ScriptCall("GetValue", Amy, NegInf),
       ScriptCall("DecreaseKeyValue", Amy, younger),
       ScriptCall("ExtractMin", Nil, NegInf),
       ScriptCall("ExtractValue", Tom, NegInf) >>

ExampleAges == {183, 194, 210, 231}

\* the scripts: the two examples, with the keys as written and with other keys
Scripts ==
    {Scenario(k1, k2, k3, k4) : k1 \in ScenarioKeys, k2 \in ScenarioKeys,
                                k3 \in ScenarioKeys, k4 \in ScenarioKeys}
    \cup {Example(john, tom, jessica, amy, 200, 165) :
            john \in ExampleAges, tom \in ExampleAges,
            jessica \in ExampleAges, amy \in ExampleAges}

InitScript ==
    /\ heap = NewFibHeap
    /\ op = Idle
    /\ ret = RetErr(NoErr)
    /\ calls = 0
    /\ api = Mixed
    /\ shadow = [t \in Nodes |-> NegInf]
    /\ seen = NoSeen
    /\ anotherHeap = NewFibHeap
    /\ script \in Scripts

\* the method a call of a script names, with the arguments of the call
Called(h, c) ==
    CASE c.name = "Insert" -> Insert(h, c.tag, c.key)
      [] c.name = "InsertValue" -> InsertValue(h, MkValue(c.tag, c.key))
      [] c.name = "Minimum" -> Minimum(h)
      [] c.name = "ExtractMin" -> ExtractMin(h)
      [] c.name = "DecreaseKey" -> DecreaseKey(h, c.tag, c.key)
      [] c.name = "DecreaseKeyValue" -> DecreaseKeyValue(h, MkValue(c.tag, c.key))
      [] c.name = "IncreaseKeyValue" -> IncreaseKeyValue(h, MkValue(c.tag, c.key))
      [] c.name = "GetValue" -> GetValue(h, c.tag)
      [] c.name = "ExtractValue" -> ExtractValue(h, c.tag)

\* the caller makes the next call of its script
ScriptStep ==
    /\ calls < Len(script)
    /\ calls' = calls + 1
    /\ heap' = Called(heap, script[calls + 1]).heap
    /\ ret' = Called(heap, script[calls + 1]).ret
    /\ op' = [name |-> script[calls + 1].name, at |-> PositionOf(heap, script[calls + 1].tag)]
    /\ shadow' = Record(script[calls + 1].name, script[calls + 1].tag,
                        script[calls + 1].key, ret')
    /\ UNCHANGED <<api, seen, anotherHeap, script>>

NextScript == ScriptStep

SpecScript == InitScript /\ [][NextScript]_vars

\* ------------------------------------------------ the cuts of a tall tree
\* src/fibonacciHeap_test.go, "when call DecreaseKey api with a smaller key":
\* the caller inserts many tags, extracts the minimum and then changes keys.
\* Here it inserts MaxNode tags and extracts the minimum, which leaves a tree
\* that has a node four links below its root, and then makes MaxCut calls that
\* change a key, delete a tag, extract the minimum or insert a tag again.
\* the keys of the tags it inserts: all the same, or one after the other
GrownKeys == {[i \in Nodes |-> 1], [i \in Nodes |-> i % (MaxKey + 1)]}

RECURSIVE Grow(_, _, _)
Grow(h, keys, i) ==
    IF i > MaxNode THEN h ELSE Grow(Insert(h, i, keys[i]).heap, keys, i + 1)

Grown(keys) == ExtractMin(Grow(NewFibHeap, keys, 1)).heap

InitCut ==
    /\ heap \in {Grown(keys) : keys \in GrownKeys}
    /\ op = Idle
    /\ ret = RetErr(NoErr)
    /\ calls = 0
    /\ api = ByKey
    /\ shadow = [t \in Nodes |-> Found(heap, t)]
    /\ seen = NoSeen
    /\ anotherHeap = NewFibHeap
    /\ script = << >>

CutCall(name, tag, key, r) ==
    /\ calls < MaxCut
    /\ calls' = calls + 1
    /\ Apply(ByKey, name, tag, key, r)
    /\ UNCHANGED seen

CutInsert(tag, key) == CutCall("Insert", tag, key, Insert(heap, tag, key))
CutDecreaseKey(tag, key) == CutCall("DecreaseKey", tag, key, DecreaseKey(heap, tag, key))
CutIncreaseKey(tag, key) == CutCall("IncreaseKey", tag, key, IncreaseKey(heap, tag, key))
CutDelete(tag) == CutCall("Delete", tag, NegInf, Delete(heap, tag))
CutExtractMin == CutCall("ExtractMin", Nil, NegInf, ExtractMin(heap))

NextCut ==
    \/ Return
    \/ \E tag \in Nodes \ LiveTags(heap), key \in Keys : CutInsert(tag, key)
    \/ \E tag \in Nodes, key \in Keys : CutDecreaseKey(tag, key)
    \/ \E tag \in Nodes, key \in Keys : CutIncreaseKey(tag, key)
    \/ \E tag \in Nodes : CutDelete(tag)
    \/ CutExtractMin

SpecCut == InitCut /\ [][NextCut]_vars

\* ------------------------------------------ inserts and extractions only
\* a caller that only inserts and extracts the minimum, from an empty heap or
\* from a heap of MaxNode inserted nodes
InitBin ==
    /\ heap \in {NewFibHeap} \cup {Grow(NewFibHeap, keys, 1) : keys \in GrownKeys}
    /\ op = Idle
    /\ ret = RetErr(NoErr)
    /\ calls = 0
    /\ api = Mixed
    /\ shadow = [t \in Nodes |-> Found(heap, t)]
    /\ seen = NoSeen
    /\ anotherHeap = NewFibHeap
    /\ script = << >>

BinCall(name, tag, key, r) ==
    /\ calls < MaxBin
    /\ calls' = calls + 1
    /\ op.name = "idle"
    /\ heap' = r.heap
    /\ op' = [name |-> name, at |-> PositionOf(heap, tag)]
    /\ ret' = r.ret
    /\ shadow' = Record(name, tag, key, r.ret)
    /\ UNCHANGED <<api, seen, anotherHeap, script>>

\* the tag a caller inserts next: the first that is not in the heap
BinTags == {t \in Nodes : heap.index[t] = Nil /\ \A u \in 1..(t - 1) : heap.index[u] # Nil}

BinInsert(tag, key) == BinCall("Insert", tag, key, Insert(heap, tag, key))
BinInsertValue(tag, key) ==
    BinCall("InsertValue", tag, key, InsertValue(heap, MkValue(tag, key)))
BinExtractMin == BinCall("ExtractMin", Nil, NegInf, ExtractMin(heap))

NextBin ==
    \/ Return
    \/ \E tag \in BinTags, key \in Keys : BinInsert(tag, key)
    \/ \E tag \in BinTags, key \in Keys : BinInsertValue(tag, key)
    \/ BinExtractMin

SpecBin == InitBin /\ [][NextBin]_vars

\* --------------------------------------------- the calls after a Union
\* the caller of the Value methods goes on with both heaps after a Union that
\* has succeeded
InitAfter == InitUnion /\ api = ByValue

\* the calls before the Union leave room for the Union and one call after it
AfterBuildInsertValue(which, tag, key) ==
    calls + 2 < MaxAfter /\ BuildInsertValue(which, tag, key)
AfterBuildExtractMin(which) ==
    calls + 2 < MaxAfter /\ BuildExtractMin(which)
AfterUnionHeaps(nodes) ==
    calls + 1 < MaxAfter /\ UnionHeaps(nodes)

Later(which, r) ==
    /\ op.name = "Union"
    /\ ret.err = NoErr
    /\ calls < MaxAfter
    /\ r.ret.err = NoErr
    /\ calls' = calls + 1
    /\ IF which = Dest
       THEN heap' = r.heap /\ UNCHANGED anotherHeap
       ELSE anotherHeap' = r.heap /\ UNCHANGED heap
    /\ UNCHANGED <<op, ret, api, shadow, seen, script>>

LaterExtractMin(which) ==
    /\ HeapOf(which).num # 0
    /\ Later(which, ExtractMin(HeapOf(which)))
LaterDecreaseKey(which, tag, key) == Later(which, DecreaseKey(HeapOf(which), tag, key))
LaterIncreaseKey(which, tag, key) == Later(which, IncreaseKey(HeapOf(which), tag, key))
LaterDecreaseKeyValue(which, tag, key) ==
    Later(which, DecreaseKeyValue(HeapOf(which), MkValue(tag, key)))
LaterIncreaseKeyValue(which, tag, key) ==
    Later(which, IncreaseKeyValue(HeapOf(which), MkValue(tag, key)))
LaterDelete(which, tag) == Later(which, Delete(HeapOf(which), tag))

NextAfter ==
    \/ \E which \in Whiches, tag \in BuildTags, key \in Keys :
          AfterBuildInsertValue(which, tag, key)
    \/ \E which \in Whiches : AfterBuildExtractMin(which)
    \/ \E nodes \in (IF op.name = "idle" THEN IndexOrders(anotherHeap) ELSE {}) :
          AfterUnionHeaps(nodes)
    \/ \E which \in Whiches : LaterExtractMin(which)
    \/ \E which \in Whiches, tag \in Tags, key \in Keys : LaterDecreaseKey(which, tag, key)
    \/ \E which \in Whiches, tag \in Tags, key \in Keys : LaterIncreaseKey(which, tag, key)
    \/ \E which \in Whiches, tag \in Tags, key \in Keys :
          LaterDecreaseKeyValue(which, tag, key)
    \/ \E which \in Whiches, tag \in Tags, key \in Keys :
          LaterIncreaseKeyValue(which, tag, key)
    \/ \E which \in Whiches, tag \in Tags : LaterDelete(which, tag)

SpecAfter == InitAfter /\ [][NextAfter]_vars

\* ------------------------------------------- values whose Tag() is nil
\* a caller whose Value objects may return nil from Tag(): InsertValue tests
\* the value, not its tag

InitNilTag ==
    /\ heap = NewFibHeap
    /\ op = Idle
    /\ ret = RetErr(NoErr)
    /\ calls = 0
    /\ api = Mixed
    /\ shadow = [t \in Nodes |-> NegInf]
    /\ seen = NoSeen
    /\ anotherHeap = NewFibHeap
    /\ script = << >>

\* (the caller keeps no record of a nil tag)
NilCall(name, tag, key, r) ==
    /\ calls < MaxNil
    /\ calls' = calls + 1
    /\ op.name = "idle"
    /\ heap' = r.heap
    /\ op' = [name |-> name, at |-> PositionOf(heap, tag)]
    /\ ret' = r.ret
    /\ shadow' = IF tag = Nil THEN shadow ELSE Record(name, tag, key, r.ret)
    /\ UNCHANGED <<api, seen, anotherHeap, script>>

NilInsert(tag, key) == NilCall("Insert", tag, key, Insert(heap, tag, key))
NilInsertValue(tag, key) ==
    NilCall("InsertValue", tag, key, InsertValue(heap, MkValue(tag, key)))
NilMinimum == NilCall("Minimum", Nil, NegInf, Minimum(heap))
NilExtractMin == NilCall("ExtractMin", Nil, NegInf, ExtractMin(heap))
NilDecreaseKey(tag, key) == NilCall("DecreaseKey", tag, key, DecreaseKey(heap, tag, key))
NilDecreaseKeyValue(tag, key) ==
    NilCall("DecreaseKeyValue", tag, key, DecreaseKeyValue(heap, MkValue(tag, key)))
NilIncreaseKey(tag, key) == NilCall("IncreaseKey", tag, key, IncreaseKey(heap, tag, key))
NilDelete(tag) == NilCall("Delete", tag, NegInf, Delete(heap, tag))
NilDeleteValue(tag) == NilCall("DeleteValue", tag, NegInf, DeleteValue(heap, MkValue(tag, 0)))
NilGetTag(tag) == NilCall("GetTag", tag, NegInf, GetTag(heap, tag))

NextNilTag ==
    \/ Return
    \/ \E tag \in InsertTags \cup {Nil}, key \in Keys : NilInsert(tag, key)
    \/ \E tag \in InsertTags \cup {Nil}, key \in Keys : NilInsertValue(tag, key)
    \/ NilMinimum
    \/ NilExtractMin
    \/ \E tag \in InTags, key \in Keys : NilDecreaseKey(tag, key)
    \/ \E tag \in InTags, key \in Keys : NilDecreaseKeyValue(tag, key)
    \/ \E tag \in InTags, key \in Keys : NilIncreaseKey(tag, key)
    \/ \E tag \in InTags : NilDelete(tag)
    \/ \E tag \in InTags : NilDeleteValue(tag)
    \/ \E tag \in InTags : NilGetTag(tag)

SpecNilTag == InitNilTag /\ [][NextNilTag]_vars

\* ------------------------------------------------- well-formedness checks
\* no bucket holds an element that has left the root list, and nothing refers
\* to a node that is not in the index: identifying a node with its tag and a
\* root-list element with the node it holds loses nothing
NoDeadRef ==
    /\ \A d \in Degrees : heap.treeDegrees[d] # NilElem =>
          /\ heap.treeDegrees[d].live
          /\ InList(heap.roots, heap.treeDegrees[d].n)
    /\ \A i \in 1..Len(heap.roots) : heap.index[heap.roots[i]] # Nil
    /\ \A i, j \in 1..Len(heap.roots) : heap.roots[i] = heap.roots[j] => i = j
    /\ \A t \in Nodes : heap.index[t] \in {Nil, t}
    /\ \A t \in LiveTags(heap) :
          /\ heap.parent[t] # Nil => heap.index[heap.parent[t]] # Nil
          /\ \A i \in 1..Len(heap.children[t]) : heap.index[heap.children[t][i]] # Nil
          /\ heap.self[t] = heap.parent[t]
          /\ heap.degree[t] = Len(heap.children[t])
          /\ heap.parent[t] = Nil <=> InList(heap.roots, t)
          /\ heap.parent[t] # Nil => InList(heap.children[heap.parent[t]], t)
    /\ heap.min # Nil => heap.index[heap.min] # Nil
    /\ (heap.num = 0) = (heap.min = Nil)
    /\ heap.num = Cardinality(LiveTags(heap))

\* ------------------------------------------------------------- the claims
\* the (tag, key) pairs successive ExtractMin calls return until the heap is empty
RECURSIVE Drain(_)
Drain(h) ==
    IF h.num = 0 THEN << >>
    ELSE << <<ExtractMin(h).ret.tag, ExtractMin(h).ret.key>> >> \o Drain(ExtractMin(h).heap)

\* successive ExtractMin calls return every node of h once, with its key, in
\* ascending order of the keys
DrainAscending(h) ==
    LET d == Drain(h)
    IN  /\ Len(d) = Cardinality(LiveTags(h))
        /\ \A t \in LiveTags(h) : \E i \in 1..Len(d) : d[i] = <<t, h.key[t]>>
        /\ \A i \in 1..(Len(d) - 1) : d[i][2] <= d[i + 1][2]

\* C1: on a non-empty heap Minimum() returns a tag of the heap with its key,
\* that key is at most the key of every node in the heap (roots or not), and
\* the call leaves Num() as it was; so it is for the Minimum() that follows a
\* Union as well.
C1_MinimumIsLeast ==
    [][/\ MinimumStep =>
            /\ heap'.num = heap.num
            /\ Inserted # {} =>
                /\ ret'.tag \in Inserted
                /\ ret'.key = shadow[ret'.tag]
                /\ \A t \in Inserted : ret'.key <= shadow[t]
       /\ (op'.name = "Union" /\ Inserted' # {}) =>
            /\ Minimum(heap').heap.num = heap'.num
            /\ Minimum(heap').ret.tag \in Inserted'
            /\ Minimum(heap').ret.key = shadow'[Minimum(heap').ret.tag]
            /\ \A t \in Inserted' : Minimum(heap').ret.key <= shadow'[t]]_vars

\* Minimum was called on a heap that has a node below a root
C1_Witness ==
    /\ op.name = "Minimum"
    /\ ret.tag # Nil
    /\ \E t \in LiveTags(heap) : heap.parent[t] # Nil

\* C2: on a non-empty heap ExtractMin() returns the tag and key of a node whose
\* key is at most every key left in the heap, that tag is no longer found, every
\* other tag of the heap is still found with the key it had, and Num() is one less.
C2_ExtractMinRemovesLeast ==
    [][(ExtractMinStep /\ Inserted # {}) =>
        /\ ret'.tag \in Inserted
        /\ ret'.key = shadow[ret'.tag]
        /\ Found(heap', ret'.tag) = NegInf
        /\ \A t \in Inserted \ {ret'.tag} :
              /\ Found(heap', t) = shadow[t]
              /\ ret'.key <= Found(heap', t)
        /\ heap'.num = heap.num - 1]_vars

\* ExtractMin removed a node and left a tree of at least three nodes
C2_Witness ==
    /\ op.name = "ExtractMin"
    /\ ret.tag # Nil
    /\ \E t \in LiveTags(heap) : heap.degree[t] >= 2

\* C3: N successful inserts followed by N ExtractMin calls: the keys returned
\* never decrease, the first is the key Minimum() reported before the first
\* extraction, and Num() is N minus the number of extractions made.
C3_InsertsThenExtracts ==
    seen.n # 0 =>
        /\ \A i \in 1..(Len(seen.keys) - 1) : seen.keys[i] <= seen.keys[i + 1]
        /\ seen.keys # << >> => seen.keys[1] = seen.min
        /\ heap.num = seen.n - Len(seen.keys)

\* four inserts with two different keys have all been extracted again
C3_Witness ==
    /\ seen.n >= 4
    /\ Len(seen.keys) = seen.n
    /\ seen.keys[1] < seen.keys[seen.n]

\* C4: Num() is the number of successful inserts minus the number of successful
\* removals: it is 0 at first (and the number of the nodes the caller has put
\* in and not taken out, when it starts), a successful insert adds 1, an ExtractMin on a
\* non-empty heap and a Delete or ExtractTag of a tag of the heap take 1 away,
\* a Union adds 1 for each insert it makes that succeeds, and every other call,
\* failed or not, leaves it as it is.
C4_NumCountsInsertsMinusRemovals ==
    /\ heap.num = Cardinality(Inserted)
    /\ Inserted = {} => heap.num = 0
    /\ [][IF op'.name \in {"Insert", "InsertValue"} /\ ret'.err = NoErr
          THEN heap'.num = heap.num + 1
          ELSE IF op'.name = "Union"
          THEN heap'.num = heap.num + Cardinality(Inserted' \ Inserted)
          ELSE IF \/ op'.name \in {"ExtractMin", "ExtractMinValue"} /\ Inserted # {}
                  \/ op'.name \in {"Delete", "DeleteValue"} /\ ret'.err = NoErr
                  \/ op'.name \in {"ExtractTag", "ExtractValue"} /\ Inserted' # Inserted
          THEN heap'.num = heap.num - 1
          ELSE heap'.num = heap.num]_vars

\* a failed call (an error, or a tag that is not there) after a removal, on a
\* heap of three nodes
C4_Witness ==
    /\ heap.num = 3
    /\ \/ ret.err # NoErr
       \/ op.name \in {"ExtractTag", "ExtractValue"} /\ op.at = "absent"
    /\ calls = 2

\* C5: GetTag(tag) returns the current key, which is not negative infinity, for
\* exactly the tags inserted and not yet removed, and negative infinity for
\* every other tag.
C5_GetTagFindsExactlyTheInserted ==
    \A t \in Tags : Found(heap, t) = shadow[t]

\* GetTag found a tag while a tag inserted before it has been removed
C5_Witness ==
    /\ op.name = "GetTag"
    /\ ret.key # NegInf
    /\ \E t, u \in Tags : t < u /\ shadow[t] = NegInf /\ shadow[u] # NegInf

\* C6: a successful DecreaseKey(tag, k) or DecreaseKeyValue makes GetTag(tag)
\* report k; if k is smaller than every other key of the heap the next
\* Minimum() returns (tag, k); and successive ExtractMin calls then return the
\* nodes in ascending order of their keys.
C6_DecreaseKeySetsKey ==
    [][\A tag \in Tags, key \in Keys :
        (/\ op'.name \in {"DecreaseKey", "DecreaseKeyValue"}
         /\ ret'.err = NoErr
         /\ DecreaseKeyStep(tag, key) \/ DecreaseKeyValueStep(tag, key)) =>
            /\ Found(heap', tag) = key
            /\ (\A t \in Inserted \ {tag} : key < shadow[t]) =>
                  /\ Minimum(heap').ret.tag = tag
                  /\ Minimum(heap').ret.key = key
            /\ DrainAscending(heap')]_vars

\* a node below a root was given a key smaller than its parent's and is now
\* the minimum
C6_Witness ==
    /\ op.name \in {"DecreaseKey", "DecreaseKeyValue"}
    /\ ret.err = NoErr
    /\ op.at \in {"leaf", "inner"}
    /\ \E t \in LiveTags(heap) : heap.marked[t]
    /\ heap.num >= 4

\* C7: DecreaseKey or DecreaseKeyValue of a tag of the heap with a key greater
\* than or equal to its current key returns an error and leaves the whole heap
\* as it was.
C7_DecreaseKeyRejectsLargerKey ==
    [][\A tag \in Tags, key \in Keys :
        (/\ op'.name \in {"DecreaseKey", "DecreaseKeyValue"}
         /\ shadow[tag] # NegInf
         /\ key >= shadow[tag]
         /\ DecreaseKeyStep(tag, key) \/ DecreaseKeyValueStep(tag, key)) =>
            /\ ret'.err # NoErr
            /\ heap' = heap]_vars

\* DecreaseKey was refused for a node below a root
C7_Witness ==
    /\ op.name \in {"DecreaseKey", "DecreaseKeyValue"}
    /\ ret.err = "New key is not smaller than current key"
    /\ op.at = "leaf"

\* the least key among the nodes of a set
LeastKey(h, ns) == CHOOSE k \in {h.key[n] : n \in ns} : \A n \in ns : k <= h.key[n]

\* C8: a successful IncreaseKey(tag, k) or IncreaseKeyValue sets the key of tag
\* to k and Minimum() still returns a node with the least key of the heap; when
\* the node was the minimum, the new minimum has the least key among the roots
\* there were and the children cut from the node.
C8_IncreaseKeyKeepsMinimum ==
    [][\A tag \in Tags, key \in Keys :
        (/\ op'.name \in {"IncreaseKey", "IncreaseKeyValue"}
         /\ ret'.err = NoErr
         /\ IncreaseKeyStep(tag, key) \/ IncreaseKeyValueStep(tag, key)) =>
            /\ Found(heap', tag) = key
            /\ Minimum(heap').ret.tag \in Inserted'
            /\ \A t \in Inserted' : Minimum(heap').ret.key <= shadow'[t]
            /\ heap.min = tag =>
                  LET cutOff == {c \in LiveTags(heap) : heap.parent[c] = tag /\ heap.key[c] < key}
                      wereRoots == {r \in LiveTags(heap) : heap.parent[r] = Nil}
                  IN  /\ Minimum(heap').ret.tag \in wereRoots \cup cutOff
                      /\ Minimum(heap').ret.key = LeastKey(heap', wereRoots \cup cutOff)
                      /\ \A c \in cutOff : heap'.parent[c] = Nil]_vars

\* the key of the minimum was increased above the key of one of its children,
\* which is the minimum now
C8_Witness ==
    /\ op.name \in {"IncreaseKey", "IncreaseKeyValue"}
    /\ ret.err = NoErr
    /\ op.at = "root"
    /\ \E t \in LiveTags(heap) :
          /\ heap.min # t
          /\ heap.children[t] # << >>
          /\ heap.key[heap.min] < heap.key[t]
          /\ \E c \in LiveTags(heap) : heap.parent[c] = t /\ heap.key[c] = heap.key[t]
    /\ Len(heap.roots) >= 3

\* C9: IncreaseKey or IncreaseKeyValue of a tag of the heap with a key less than
\* or equal to its current key returns an error and leaves the whole heap as it
\* was.
C9_IncreaseKeyRejectsSmallerKey ==
    [][\A tag \in Tags, key \in Keys :
        (/\ op'.name \in {"IncreaseKey", "IncreaseKeyValue"}
         /\ shadow[tag] # NegInf
         /\ key <= shadow[tag]
         /\ IncreaseKeyStep(tag, key) \/ IncreaseKeyValueStep(tag, key)) =>
            /\ ret'.err # NoErr
            /\ heap' = heap]_vars

\* IncreaseKey was refused for a node that has children
C9_Witness ==
    /\ op.name \in {"IncreaseKey", "IncreaseKeyValue"}
    /\ ret.err = "New key is not larger than current key"
    /\ op.at = "root"
    /\ \E t \in LiveTags(heap) : heap.degree[t] >= 2

\* C10: Delete, DeleteValue, ExtractTag and ExtractValue of a tag of the heap,
\* wherever its node is in the forest, remove that node and no other: the tag
\* is no longer found, Num() is one less, every other tag is still found with
\* the key it had, and ExtractTag returns the key the node had, never negative
\* infinity.
C10_DeleteRemovesExactlyTheNode ==
    [][\A tag \in Tags :
        (/\ op'.name \in {"Delete", "DeleteValue", "ExtractTag", "ExtractValue"}
         /\ shadow[tag] # NegInf
         /\ \/ DeleteStep(tag) \/ DeleteValueStep(tag)
            \/ ExtractTagStep(tag) \/ ExtractValueStep(tag)) =>
            /\ Found(heap', tag) = NegInf
            /\ heap'.num = heap.num - 1
            /\ \A t \in Inserted \ {tag} : Found(heap', t) = shadow[t]
            /\ op'.name = "ExtractTag" => ret'.key = shadow[tag] /\ ret'.key # NegInf
            /\ op'.name = "ExtractValue" => ret'.value = MkValue(tag, shadow[tag])
            /\ op'.name \in {"Delete", "DeleteValue"} => ret'.err = NoErr]_vars

\* ExtractTag removed a node that had a parent and children
C10_Witness ==
    /\ op.name = "ExtractTag"
    /\ op.at = "inner"
    /\ ret.key # NegInf
    /\ heap.num = 3

\* C11: Delete and DeleteValue of a tag that is not in the heap (a nil tag or
\* value included) return an error, ExtractTag and ExtractValue of such a tag
\* return negative infinity and nil, and all four leave the heap, Num()
\* included, as it was.
C11_AbsentTagChangesNothing ==
    [][\A tag \in InTags :
        (/\ op'.name \in {"Delete", "DeleteValue", "ExtractTag", "ExtractValue"}
         /\ tag = Nil \/ shadow[tag] = NegInf
         /\ \/ DeleteStep(tag) \/ DeleteValueStep(tag)
            \/ ExtractTagStep(tag) \/ ExtractValueStep(tag)) =>
            /\ heap' = heap
            /\ op'.name \in {"Delete", "DeleteValue"} => ret'.err # NoErr
            /\ op'.name = "ExtractTag" => ret'.key = NegInf
            /\ op'.name = "ExtractValue" => ret'.value = NilValue]_vars

\* Delete was refused for a tag that is not in a heap that has a tree
C11_Witness ==
    /\ op.name \in {"Delete", "DeleteValue"}
    /\ op.at = "absent"
    /\ ret.err # NoErr
    /\ \E t \in LiveTags(heap) : heap.parent[t] # Nil

\* C12: Insert(tag, key) fails exactly when the tag is nil, the key is negative
\* infinity or the tag is in the heap, and then leaves the heap as it was;
\* otherwise it adds one root of degree 0, unmarked and without a parent, at
\* the end of the root list, Num() is one more, the new node is the minimum
\* exactly when the heap was empty or its key is strictly smaller than the key
\* of the minimum there was, and no node there was changes its parent, its
\* children, its mark, its degree or its key.  InsertValue does the same, its
\* nil input being the value.
C12_InsertAddsOneRoot ==
    [][\A tag \in InTags, key \in InKeys :
        (/\ op'.name \in {"Insert", "InsertValue"}
         /\ InsertStep(tag, key) \/ InsertValueStep(tag, key)) =>
            IF tag = Nil \/ key = NegInf \/ shadow[tag] # NegInf
            THEN ret'.err # NoErr /\ heap' = heap
            ELSE /\ ret'.err = NoErr
                 /\ heap'.roots = Append(heap.roots, tag)
                 /\ heap'.index[tag] = tag
                 /\ heap'.degree[tag] = 0 /\ heap'.children[tag] = << >>
                 /\ ~heap'.marked[tag]
                 /\ heap'.parent[tag] = Nil
                 /\ heap'.key[tag] = key
                 /\ heap'.num = heap.num + 1
                 /\ heap'.min = IF heap.min = Nil \/ key < heap.key[heap.min]
                                THEN tag ELSE heap.min
                 /\ \A t \in LiveTags(heap) :
                       /\ heap'.index[t] = t
                       /\ heap'.parent[t] = heap.parent[t]
                       /\ heap'.children[t] = heap.children[t]
                       /\ heap'.marked[t] = heap.marked[t]
                       /\ heap'.degree[t] = heap.degree[t]
                       /\ heap'.key[t] = heap.key[t]]_vars

\* Insert added a root whose key equals the key of the minimum, which stayed
\* the minimum, to a heap that has a tree
C12_Witness ==
    /\ op.name = "Insert"
    /\ ret.err = NoErr
    /\ \E t \in LiveTags(heap) : heap.parent[t] # Nil
    /\ heap.min # heap.roots[Len(heap.roots)]
    /\ heap.key[heap.min] = heap.key[heap.roots[Len(heap.roots)]]

\* C13: a call of Insert, InsertValue, DecreaseKey, DecreaseKeyValue,
\* IncreaseKey, IncreaseKeyValue, Delete, DeleteValue or Union that returns an
\* error leaves the heap as it was before the call: the forest, the index, the
\* marks, the minimum and the count.
C13_ErrorChangesNothing ==
    [][(op'.name # "idle" /\ ret'.err # NoErr) => heap' = heap]_vars

\* Union was refused for a heap that has a tree
C13_Witness ==
    /\ op.name = "Union"
    /\ ret.err # NoErr
    /\ \E t \in LiveTags(heap) : heap.parent[t] # Nil

\* the heap has no node, no root, no minimum and no tree in a bucket
IsEmpty(h) ==
    /\ h.num = 0
    /\ h.roots = << >>
    /\ h.min = Nil
    /\ LiveTags(h) = {}
    /\ \A d \in Degrees : h.treeDegrees[d] = NilElem

\* Minimum() and ExtractMin() return the empty marker on h and leave it as it is
EmptyMarker(h) ==
    /\ Minimum(h).ret = Ret(NoErr, Nil, NegInf, NilValue)
    /\ MinimumValue(h).ret = Ret(NoErr, Nil, NegInf, NilValue)
    /\ ExtractMin(h).ret = Ret(NoErr, Nil, NegInf, NilValue)
    /\ ExtractMinValue(h).value = NilValue
    /\ Minimum(h).heap = h /\ MinimumValue(h).heap = h
    /\ ExtractMin(h).heap = h /\ ExtractMinValue(h).heap = h

\* C14: on an empty heap, new or emptied by extracting every node, Minimum()
\* and ExtractMin() return a nil tag and negative infinity, and their Value
\* variants nil, however often they are called; Num() stays 0 and the heap
\* stays empty; an insert after that succeeds and its node is the minimum.
C14_EmptyHeapReturnsMarker ==
    /\ [](heap.num = 0 => IsEmpty(heap) /\ EmptyMarker(heap))
    /\ [][/\ (heap.num = 0 /\ op'.name \in {"Minimum", "MinimumValue",
                                              "ExtractMin", "ExtractMinValue"}) =>
              /\ ret' = Ret(NoErr, Nil, NegInf, NilValue)
              /\ heap' = heap
          /\ \A tag \in Tags, key \in Keys :
                (/\ heap.num = 0
                 /\ op'.name \in {"Insert", "InsertValue"}
                 /\ InsertStep(tag, key) \/ InsertValueStep(tag, key)) =>
                    /\ ret'.err = NoErr
                    /\ heap'.num = 1
                    /\ Minimum(heap').ret.tag = tag
                    /\ Minimum(heap').ret.key = key]_vars

\* ExtractMin has removed the last node of the heap, and on the emptied heap
\* Minimum and ExtractMin return the empty marker
C14_Witness ==
    /\ op.name \in {"ExtractMin", "ExtractMinValue"}
    /\ ret.tag # Nil \/ ret.value # NilValue
    /\ heap.num = 0
    /\ calls = 2
    /\ EmptyMarker(heap)

\* the smaller of the minimum keys Minimum() reports for two heaps, an empty
\* heap having none
SmallerMinimum(h1, h2) ==
    IF h1.num = 0 THEN Minimum(h2).ret.key
    ELSE IF h2.num = 0 THEN Minimum(h1).ret.key
    ELSE IF Minimum(h1).ret.key <= Minimum(h2).ret.key
         THEN Minimum(h1).ret.key ELSE Minimum(h2).ret.key

\* heap.Union(anotherHeap) has returned no error, Num() is the sum of the two
\* sizes, every node there was in either heap is found under its tag with the
\* key it had, and the minimum key is the smaller of the two minimum keys
Merged ==
    /\ ret'.err = NoErr
    /\ heap'.num = heap.num + anotherHeap.num
    /\ \A t \in LiveTags(anotherHeap) : Found(heap', t) = Found(anotherHeap, t)
    /\ \A t \in LiveTags(heap) : Found(heap', t) = Found(heap, t)
    /\ Minimum(heap').ret.key = SmallerMinimum(heap, anotherHeap)

\* C15: the union of two heaps that share no tag, however they were built
\* (Insert or InsertValue, then DecreaseKey and IncreaseKey by tag/key or by
\* value), succeeds, Num() is the sum of the two sizes, every node of the source
\* is in the destination under its tag with its current key, and the minimum
\* key is the smaller of the two minimum keys.
C15_UnionMergesEveryNode ==
    [][(op'.name = "Union" /\ LiveTags(heap) \cap LiveTags(anotherHeap) = {}) =>
        Merged]_vars

\* C16: when both heaps were built with InsertValue, DecreaseKeyValue and
\* IncreaseKeyValue only and share no tag, Union returns no error, Num() is the
\* sum of the two sizes, the minimum key is the smaller of the two minimum keys
\* (with an empty heap on either side: the size and the minimum key of the
\* other), and successive ExtractMin calls return that many keys, none smaller
\* than the one before.
C16_UnionOfValueHeaps ==
    [][(/\ op'.name = "Union"
        /\ api = ByValue
        /\ LiveTags(heap) \cap LiveTags(anotherHeap) = {}) =>
            /\ Merged
            /\ Len(Drain(heap')) = heap.num + anotherHeap.num
            /\ DrainAscending(heap')]_vars

\* two heaps of two values each were united, and the minimum is a value of
\* the source, whose other value has a larger key
C16_Witness ==
    /\ op.name = "Union"
    /\ api = ByValue
    /\ ret.err = NoErr
    /\ heap.num = 4
    /\ anotherHeap.num = 2
    /\ anotherHeap.index[heap.min] # Nil
    /\ \E t \in LiveTags(anotherHeap) : anotherHeap.key[t] > heap.key[heap.min]

\* C17: the union of two heaps that share a tag returns an error and leaves
\* the destination and the source as they were, whichever node of the source
\* has the shared tag.
C17_UnionRefusesSharedTag ==
    [][(op'.name = "Union" /\ LiveTags(heap) \cap LiveTags(anotherHeap) # {}) =>
        /\ ret'.err # NoErr
        /\ heap' = heap
        /\ anotherHeap' = anotherHeap]_vars

\* Union was refused for a source of which one tag is in the destination and
\* another is not
C17_Witness ==
    /\ op.name = "Union"
    /\ ret.err # NoErr
    /\ \E t, u \in LiveTags(anotherHeap) : heap.index[t] # Nil /\ heap.index[u] = Nil

\* C18: from an empty heap, Insert(1, 10), Insert(2, 20), Insert(3, 5), then
\* Minimum() is (3, 5), ExtractMin() returns (3, 5), Minimum() is (1, 10),
\* DecreaseKey(2, 1) succeeds and Minimum() is (2, 1).
C18_Scenario ==
    script = Scenario(10, 20, 5, 1) =>
        /\ calls = 4 => ret.tag = 3 /\ ret.key = 5
        /\ calls = 5 => ret.tag = 3 /\ ret.key = 5
        /\ calls = 6 => ret.tag = 1 /\ ret.key = 10
        /\ calls = 7 => ret.err = NoErr
        /\ calls = 8 => ret.tag = 2 /\ ret.key = 1

\* the scenario has run to its last Minimum()
C18_Witness ==
    /\ script = Scenario(10, 20, 5, 1)
    /\ calls = 8
    /\ op.name = "Minimum"

\* C19: the example of the README: after InsertValue of John 18.3, Tom 21.0,
\* Jessica 19.4 and Amy 23.1, Num() is 4 and the minimum is John 18.3; after
\* IncreaseKeyValue(John to 20) two ExtractMin calls return Jessica 19.4 and
\* John 20 and Num() is 2; after DecreaseKeyValue(Amy to 16.5) ExtractMin
\* returns Amy 16.5 and Num() is 1; ExtractValue("Tom") returns Tom 21 and
\* Num() is 0.
C19_ReadmeExample ==
    script = Example(183, 210, 194, 231, 200, 165) =>
        /\ calls = 4 => heap.num = 4
        /\ calls = 5 => ret.tag = John /\ ret.key = 183 /\ heap.num = 4
        /\ calls = 7 => ret.err = NoErr
        /\ calls = 8 => ret.tag = Jessica /\ ret.key = 194
        /\ calls = 9 => ret.tag = John /\ ret.key = 200 /\ heap.num = 2
        /\ calls = 11 => ret.err = NoErr
        /\ calls = 12 => ret.tag = Amy /\ ret.key = 165 /\ heap.num = 1
        /\ calls = 13 => ret.value = MkValue(Tom, 210) /\ heap.num = 0

\* the example has run to its ExtractValue("Tom")
C19_Witness ==
    /\ script = Example(183, 210, 194, 231, 200, 165)
    /\ calls = 13
    /\ op.name = "ExtractValue"

\* C20: heap order holds after every completed call: the key of a node that
\* has a parent is greater than or equal to the key of its parent (and so a
\* node's key is at most the key of each of its descendants), after the links
\* of consolidate, the cuts of DecreaseKey and IncreaseKey, and Delete.
C20_HeapOrder ==
    \A t \in LiveTags(heap) :
        heap.parent[t] # Nil => heap.key[heap.parent[t]] <= heap.key[t]

\* IncreaseKey of a node that has a parent has cut a child from it, and the
\* node is still below its parent
C20_Witness ==
    /\ op.name \in {"IncreaseKey", "IncreaseKeyValue"}
    /\ ret.err = NoErr
    /\ op.at = "inner"
    /\ \E t \in LiveTags(heap) : heap.marked[t] /\ heap.parent[t] # Nil

\* the nodes of the forest: the nodes of a list and of the lists below them,
\* each as often as the walk from the list through the child links meets it
RECURSIVE Walk(_, _, _)
Walk(h, list, depth) ==
    IF list = << >> \/ depth = 0 THEN << >>
    ELSE << Head(list) >> \o Walk(h, h.children[Head(list)], depth - 1)
                         \o Walk(h, Tail(list), depth)

ForestNodes(h) == Walk(h, h.roots, MaxNode)

\* C21: index completeness holds after every completed call: every entry of
\* the index maps a tag to one node, which has that tag; the nodes of the index
\* are exactly the nodes the walk from the root list through the child links
\* meets, each of them once; and Num() is the number of entries of the index
\* and the number of nodes of the forest.
C21_IndexComplete ==
    LET forest == ForestNodes(heap)
    IN  /\ \A t \in Nodes : heap.index[t] \in {Nil, t}
        /\ {forest[i] : i \in 1..Len(forest)} = LiveTags(heap)
        /\ \A i, j \in 1..Len(forest) : forest[i] = forest[j] => i = j
        /\ heap.num = Cardinality(LiveTags(heap))
        /\ heap.num = Len(forest)

\* Delete has removed a node that had a parent and children, and the heap
\* still has a node below a root
C21_Witness ==
    /\ op.name \in {"Delete", "DeleteValue"}
    /\ op.at = "inner"
    /\ ret.err = NoErr
    /\ \E t \in LiveTags(heap) : heap.parent[t] # Nil

\* no two roots of h have the same degree
DegreesDiffer(h) ==
    \A i, j \in 1..Len(h.roots) :
        h.degree[h.roots[i]] = h.degree[h.roots[j]] => i = j

\* C22: degree uniqueness: right after every ExtractMin, Delete or ExtractTag
\* that removes a node and leaves the heap non-empty, no two roots have the
\* same degree, whatever the root list was before (the roots that inserts and
\* cuts have added since the last consolidation included).
C22_DegreesUnique ==
    [][(/\ op'.name \in {"ExtractMin", "ExtractMinValue", "Delete", "DeleteValue",
                         "ExtractTag", "ExtractValue"}
        /\ heap'.num = heap.num - 1
        /\ heap'.num > 0) => DegreesDiffer(heap')]_vars

\* ExtractMin has consolidated the root list after two calls that removed
\* nothing, one of them a cut that marked a node, and has left four roots
C22_Witness ==
    /\ op.name = "ExtractMin"
    /\ calls = 3
    /\ heap.num = MaxNode - 2
    /\ Len(heap.roots) = 4
    /\ \E t \in LiveTags(heap) : heap.marked[t] /\ heap.parent[t] # Nil

\* C23: marked semantics holds after every completed call: no node of the
\* root list has its marked flag set, the children of an extracted minimum
\* that were promoted to roots included.
C23_NoRootIsMarked ==
    \A i \in 1..Len(heap.roots) : ~heap.marked[heap.roots[i]]

\* heap.min is a node of the root list whose key is at most the key of every root
MinimumIsLeastRoot(h) ==
    /\ InList(h.roots, h.min)
    /\ \A i \in 1..Len(h.roots) : h.key[h.min] <= h.key[h.roots[i]]

\* C24: the minimum cache holds after every completed call: on a non-empty
\* heap heap.min is in the root list and its key is at most the key of every
\* other root.  A successful Insert or DecreaseKey leaves the minimum there
\* was or makes the node of its tag the minimum (one comparison), and a
\* successful IncreaseKey of a node that is not the minimum leaves the minimum
\* there was (no rescan).
C24_MinimumCache ==
    /\ [](heap.num > 0 => MinimumIsLeastRoot(heap))
    /\ [][\A tag \in Nodes :
            /\ (/\ op'.name \in {"Insert", "InsertValue"}
                /\ heap.index[tag] = Nil /\ heap'.index[tag] # Nil) =>
                    heap'.min \in (IF heap.min = Nil THEN {tag} ELSE {heap.min, tag})
            /\ (/\ op'.name \in {"DecreaseKey", "DecreaseKeyValue"}
                /\ heap'.key[tag] # heap.key[tag]) =>
                    heap'.min \in {heap.min, tag}
            /\ (/\ op'.name \in {"IncreaseKey", "IncreaseKeyValue"}
                /\ heap'.key[tag] # heap.key[tag]
                /\ heap.min # tag) =>
                    heap'.min = heap.min]_vars

\* DecreaseKey of a node that had a parent and children has succeeded, and the
\* minimum is neither the first nor the last of the roots, which are four or more
C24_Witness ==
    /\ op.name = "DecreaseKey"
    /\ ret.err = NoErr
    /\ op.at = "inner"
    /\ Len(heap.roots) >= 4
    /\ heap.min # heap.roots[1]
    /\ heap.min # heap.roots[Len(heap.roots)]

\* the set of the nodes of the forest of h
ForestSet(h) == {ForestNodes(h)[i] : i \in 1..Len(ForestNodes(h))}

\* C25: a successful DecreaseKey or IncreaseKey creates no node and destroys
\* none: the tags of the index, the nodes of the forest and Num() are as they
\* were, and the key and the value of every tag but the one updated are as they
\* were; links, degrees, marks and the minimum may change.
C25_KeyChangeKeepsNodes ==
    [][(/\ op'.name \in {"DecreaseKey", "DecreaseKeyValue",
                         "IncreaseKey", "IncreaseKeyValue"}
        /\ ret'.err = NoErr) =>
            /\ heap'.index = heap.index
            /\ heap'.num = heap.num
            /\ ForestSet(heap') = ForestSet(heap)
            /\ Len(ForestNodes(heap')) = Len(ForestNodes(heap))
            /\ \E tag \in LiveTags(heap) :
                  /\ heap'.key[tag] # heap.key[tag]
                  /\ \A t \in Nodes \ {tag} :
                        heap'.key[t] = heap.key[t] /\ heap'.value[t] = heap.value[t]]_vars

\* the first call, an IncreaseKey of a node that had a parent and children, has
\* cut children from the node and marked it: there are four roots or more
C25_Witness ==
    /\ op.name = "IncreaseKey"
    /\ ret.err = NoErr
    /\ op.at = "inner"
    /\ calls = 1
    /\ Len(heap.roots) >= 4
    /\ \E t \in LiveTags(heap) : heap.marked[t] /\ heap.parent[t] # Nil

\* C26: the calls that only read, Num(), Minimum(), MinimumValue(), GetTag()
\* and GetValue(), leave every part of the heap as it was, on an empty heap and
\* on a heap with nodes, for a tag of the heap and for any other tag.
C26_ReadsChangeNothing ==
    /\ [](Num(heap).heap = heap /\ Num(heap).num = Cardinality(LiveTags(heap)))
    /\ [][op'.name \in {"Minimum", "MinimumValue", "GetTag", "GetValue"} =>
            heap' = heap]_vars

\* GetTag has found a node that has a parent and a child, in a tree of four nodes
C26_Witness ==
    /\ op.name = "GetTag"
    /\ op.at = "inner"
    /\ ret.key # NegInf
    /\ heap.num = 4
    /\ Len(heap.roots) = 1

\* C27: negative infinity is reserved: Insert, InsertValue, DecreaseKey,
\* DecreaseKeyValue, IncreaseKey and IncreaseKeyValue given the key negative
\* infinity return an error and change nothing, and after every completed call
\* no node of the heap has the key negative infinity (Delete and ExtractTag
\* give it to the node they remove, and to no other); the largest key there is,
\* positive infinity, is a key Insert and IncreaseKey take.
C27_NegInfIsReserved ==
    /\ [](\A t \in LiveTags(heap) : heap.key[t] # NegInf /\ Found(heap, t) # NegInf)
    /\ [][\A tag \in InTags :
            /\ (/\ op'.name \in {"Insert", "InsertValue", "DecreaseKey",
                                  "DecreaseKeyValue", "IncreaseKey", "IncreaseKeyValue"}
                /\ \/ InsertStep(tag, NegInf) \/ InsertValueStep(tag, NegInf)
                   \/ DecreaseKeyStep(tag, NegInf) \/ DecreaseKeyValueStep(tag, NegInf)
                   \/ IncreaseKeyStep(tag, NegInf) \/ IncreaseKeyValueStep(tag, NegInf)) =>
                    ret'.err # NoErr /\ heap' = heap
            /\ (/\ op'.name \in {"Insert", "InsertValue"}
                /\ tag # Nil /\ shadow[tag] = NegInf
                /\ InsertStep(tag, MaxKey) \/ InsertValueStep(tag, MaxKey)) =>
                    ret'.err = NoErr /\ Found(heap', tag) = MaxKey
            /\ (/\ op'.name \in {"IncreaseKey", "IncreaseKeyValue"}
                /\ tag # Nil /\ shadow[tag] # NegInf /\ shadow[tag] < MaxKey
                /\ IncreaseKeyStep(tag, MaxKey) \/ IncreaseKeyValueStep(tag, MaxKey)) =>
                    ret'.err = NoErr /\ Found(heap', tag) = MaxKey]_vars

\* IncreaseKey was refused the key negative infinity for a node that has a
\* parent, in a heap of three nodes
C27_Witness ==
    /\ op.name \in {"IncreaseKey", "IncreaseKeyValue"}
    /\ ret.err = "Negative infinity key is reserved for internal usage"
    /\ op.at \in {"leaf", "inner"}
    /\ heap.num = 3

\* the ancestors of a node
RECURSIVE Ancestors(_, _)
Ancestors(h, n) == IF h.parent[n] = Nil THEN 0 ELSE 1 + Ancestors(h, h.parent[n])

\* the walk of consolidate over the roots of h reaches the end of the list
\* within a number of passes bounded by the number of roots, with the result
\* consolidate computes
WalkEnds(h) ==
    LET h1 == consolidateClear(h)
        r == Len(h1.roots)
        w == consolidateWalkSteps(h1, Front(h1.roots), 0, r * r + 1)
    IN  w.done /\ w.steps <= r * r /\ w.heap = consolidateWalk(h1, Front(h1.roots))

\* C28: the operations terminate on every heap the program reaches: the walk
\* of consolidate, started by ExtractMin or by Delete of any node, reaches the
\* end of the root list after finitely many passes (at most the square of the
\* number of roots), and the cascading cut started by cutting any node away
\* from its parent stops after at most as many cuts as that parent has
\* ancestors.
C28_OperationsTerminate ==
    /\ [](\A n \in LiveTags(heap) :
            heap.parent[n] # Nil =>
              LET c == cascadingCutCuts(cut(heap, n), heap.parent[n], 0, heap.num)
              IN  /\ c.done
                  /\ c.cuts <= Ancestors(heap, heap.parent[n])
                  /\ c.heap = cascadingCut(cut(heap, n), heap.parent[n]))
    /\ [][/\ (op'.name = "ExtractMin" /\ heap.num > 1) => WalkEnds(extractMinUnlink(heap))
          /\ \A n \in LiveTags(heap) \ LiveTags(heap') :
                (op'.name = "Delete" /\ heap.num > 1) =>
                    WalkEnds(extractMinUnlink(decreaseKey(heap, n, heap.value[n], NegInf).heap))]_vars

\* ExtractMin has consolidated, and in the heap it left the walk of the next
\* consolidation moves back (it makes more passes than there are roots) and
\* there is a node whose cut makes the cascading cut cut two ancestors
C28_Witness ==
    /\ op.name = "ExtractMin"
    /\ heap.num > 1
    /\ LET h1 == consolidateClear(extractMinUnlink(heap))
       IN  consolidateWalkSteps(h1, Front(h1.roots), 0, heap.num * heap.num).steps > Len(h1.roots)
    /\ \E n \in LiveTags(heap) :
          /\ heap.parent[n] # Nil
          /\ cascadingCutCuts(cut(heap, n), heap.parent[n], 0, heap.num).cuts = 2

\* the first collision of the walk of consolidate over the roots of h: the
\* first root whose degree an earlier root has (the root the walk is at), with
\* that earlier root (the root recorded in the bucket of the degree)
FirstCollision(h) ==
    {c \in (1..Len(h.roots)) \X (1..Len(h.roots)) :
        /\ c[1] < c[2]
        /\ h.degree[h.roots[c[1]]] = h.degree[h.roots[c[2]]]
        /\ \A a, b \in 1..(c[2] - 1) : a < b => h.degree[h.roots[a]] # h.degree[h.roots[b]]}

\* the first collision of the consolidation of h, when its two roots have the
\* same key, has left the walked root the parent of the recorded root
\* (walkedStays) or the recorded root the parent of the walked root
TieLeaves(h, after, walkedStays) ==
    \A c \in FirstCollision(h) :
        h.key[h.roots[c[1]]] = h.key[h.roots[c[2]]] =>
            IF walkedStays THEN after.parent[h.roots[c[1]]] = h.roots[c[2]]
                           ELSE after.parent[h.roots[c[2]]] = h.roots[c[1]]

\* a removal consolidates: by ExtractMin the heap without its minimum, by Delete
\* the heap without the node, which was given the key negative infinity
TiesLeave(walkedStays) ==
    /\ (op'.name = "ExtractMin" /\ heap.num > 1) =>
            TieLeaves(extractMinUnlink(heap), heap', walkedStays)
    /\ \A n \in LiveTags(heap) \ LiveTags(heap') :
          (op'.name = "Delete" /\ heap.num > 1) =>
              TieLeaves(extractMinUnlink(decreaseKey(heap, n, heap.value[n], NegInf).heap),
                        heap', walkedStays)

\* C29 as claimed: when two roots of equal degree and equal key collide during
\* consolidation, the root recorded in the degree bucket (the earlier-seen
\* root) remains the parent and the root being walked becomes its child.
C29_EarlierSeenStaysParent == [][TiesLeave(FALSE)]_vars

\* C29 as amended: when two roots of equal degree and equal key collide during
\* consolidation, the root being walked remains a root and the root recorded in
\* the degree bucket (the earlier-seen root) becomes its child.
C29_WalkedRootStaysParent == [][TiesLeave(TRUE)]_vars

\* node 1 was inserted again and ExtractMin, the second call, has consolidated:
\* node 1 is now the child of a node of its key
C29_Witness ==
    /\ op.name = "ExtractMin"
    /\ calls = 2
    /\ heap.index[1] # Nil
    /\ heap.parent[1] # Nil
    /\ heap.key[heap.parent[1]] = heap.key[1]

\* the ancestors of a node, from its parent to the root of its tree
RECURSIVE PathUp(_, _)
PathUp(h, n) == IF h.parent[n] = Nil THEN << >> ELSE <<h.parent[n]>> \o PathUp(h, h.parent[n])

\* how many ancestors of n, counted from its parent, are marked non-roots in a row
RECURSIVE MarkedRunFrom(_, _)
MarkedRunFrom(h, a) ==
    IF h.parent[a] # Nil /\ h.marked[a] THEN 1 + MarkedRunFrom(h, h.parent[a]) ELSE 0

MarkedRun(h, n) == IF h.parent[n] = Nil THEN 0 ELSE MarkedRunFrom(h, h.parent[n])

\* the rule of the cascading cut, for the non-root node n of h cut away from
\* its parent with the result after: n and the marked non-roots above it in a
\* row (cuts) are the new roots, in that order and unmarked; the first ancestor
\* that is not cut (stop) is marked when it has a parent and is as it was when
\* it is a root; every node has lost the children that were cut and nothing else
CascadeRuleOf(h, n, cuts, stop, after) ==
    \A cutSet \in {{cuts[i] : i \in 1..Len(cuts)}} :
        /\ after.roots = h.roots \o cuts
        /\ after.num = h.num /\ after.index = h.index
        /\ \A a \in LiveTags(h) :
            /\ a \in cutSet => after.parent[a] = Nil /\ ~after.marked[a]
            /\ a = stop => /\ after.parent[a] = h.parent[a]
                           /\ after.marked[a] = (h.parent[a] # Nil \/ h.marked[a])
            /\ (a \notin cutSet /\ a # stop) =>
                    after.parent[a] = h.parent[a] /\ after.marked[a] = h.marked[a]
            /\ after.children[a] = SelectSeq(h.children[a], LAMBDA c : c \notin cutSet)
            /\ after.degree[a] = h.degree[a] - (Len(h.children[a]) - Len(after.children[a]))
            /\ a # n => after.key[a] = h.key[a]

CascadeRule(h, n, result) ==
    \A path \in {PathUp(h, n)} : \A k \in {MarkedRun(h, n)} : \A after \in {result} :
        CascadeRuleOf(h, n, <<n>> \o SubSeq(path, 1, k), path[k + 1], after)

\* C30: the cascading cut. When DecreaseKey or Delete cuts a node away from its
\* parent p: if p is a root nothing else changes; if p is an unmarked non-root
\* it becomes marked and stays where it is; if p is a marked non-root it is cut
\* too, becomes an unmarked root, its parent loses one degree, and the rule
\* applies to that parent. DecreaseKey and IncreaseKey never take two children
\* from a node that stays the child of its parent: such a node loses at most
\* one child, and then it was unmarked and is marked; a root stays a root with
\* its mark, and a node that becomes a root is unmarked.
C30_CascadingCut ==
    /\ [][(op'.name = "DecreaseKey" /\ ret'.err = NoErr) =>
            \A n \in LiveTags(heap) :
                (/\ heap'.key[n] # heap.key[n]
                 /\ heap.parent[n] # Nil
                 /\ heap'.key[n] < heap.key[heap.parent[n]]) => CascadeRule(heap, n, heap')]_vars
    /\ [][(op'.name = "Delete" /\ ret'.err = NoErr) =>
            \A n \in LiveTags(heap) \ LiveTags(heap') :
                heap.parent[n] # Nil =>
                    CascadeRule(heap, n, decreaseKey(heap, n, heap.value[n], NegInf).heap)]_vars
    /\ [][(op'.name \in {"DecreaseKey", "IncreaseKey"} /\ ret'.err = NoErr) =>
            \A a \in LiveTags(heap) :
                /\ (heap.parent[a] # Nil /\ heap'.parent[a] # Nil) =>
                        /\ heap'.parent[a] = heap.parent[a]
                        /\ heap'.degree[a] >= heap.degree[a] - 1
                        /\ heap'.degree[a] <= heap.degree[a]
                        /\ heap'.degree[a] < heap.degree[a] => ~heap.marked[a] /\ heap'.marked[a]
                        /\ heap'.degree[a] = heap.degree[a] => heap'.marked[a] = heap.marked[a]
                /\ (heap.parent[a] # Nil /\ heap'.parent[a] = Nil) => ~heap'.marked[a]
                /\ heap.parent[a] = Nil =>
                        heap'.parent[a] = Nil /\ heap'.marked[a] = heap.marked[a]]_vars

\* two Deletes have left a node whose parent and grandparent are marked and
\* have parents: decreasing its key cuts the three of them
C30_Witness ==
    /\ op.name = "Delete"
    /\ calls = 2
    /\ \E n \in LiveTags(heap) :
          /\ MarkedRun(heap, n) = 2
          /\ heap.key[n] > 0
          /\ decreaseKey(heap, n, heap.value[n], 0).heap.roots
                = heap.roots \o <<n, heap.parent[n], heap.parent[heap.parent[n]]>>

\* the potential of a heap: its roots, and twice its marked nodes
Potential(h) == Len(h.roots) + 2 * Cardinality({n \in LiveTags(h) : h.marked[n]})

\* C31: for every successful DecreaseKey the number of cuts the call makes
\* (each cut adds one root) plus the change of the potential, roots plus twice
\* the marked nodes, is at most 4.
C31_PotentialBound ==
    [][(op'.name \in {"DecreaseKey", "DecreaseKeyValue"} /\ ret'.err = NoErr) =>
        /\ Len(heap'.roots) >= Len(heap.roots)
        /\ (Len(heap'.roots) - Len(heap.roots)) + (Potential(heap') - Potential(heap)) <= 4]_vars

\* DecreaseKey, the second call, has cut a node and left a node whose parent
\* and grandparent are marked and have parents: decreasing its key makes three
\* cuts and lowers the potential by one
C31_Witness ==
    /\ op.name = "DecreaseKey"
    /\ ret.err = NoErr
    /\ calls = 2
    /\ Len(heap.roots) > 1
    /\ \E n \in LiveTags(heap) :
          /\ MarkedRun(heap, n) = 2
          /\ heap.key[n] > 0
          /\ ~heap.marked[n]
          /\ heap.parent[heap.parent[heap.parent[n]]] # Nil
          /\ heap.parent[heap.parent[heap.parent[heap.parent[n]]]] = Nil
          /\ Len(decreaseKey(heap, n, heap.value[n], 0).heap.roots) = Len(heap.roots) + 3
          /\ Potential(decreaseKey(heap, n, heap.value[n], 0).heap) = Potential(heap) - 1

\* the nodes of the heap, the node of the nil tag included
LiveNodes(h) == {n \in AllNodes : h.index[n] # Nil}

\* C32: Insert with a nil tag and InsertValue of a value whose Tag() is nil
\* both return an error and change nothing, so that no node of the heap has a
\* nil tag: every node is in the index under a tag DecreaseKey, IncreaseKey
\* and Delete take.
C32_NoNilTag ==
    /\ [](\A n \in LiveNodes(heap) : NodeTag(n) # Nil)
    /\ [][(op'.name \in {"Insert", "InsertValue"} /\ op'.at = "none") =>
            ret'.err # NoErr /\ heap' = heap]_vars

\* what a caller sees of a heap: Num, Minimum and GetTag of every tag
Observed(h) ==
    [num |-> Num(h).num, min |-> Minimum(h).ret, keys |-> [t \in Tags |-> Found(h, t)]]

HeapAfter(which) == IF which = Dest THEN heap' ELSE anotherHeap'

\* C34: DecreaseKey and IncreaseKey by tag put the nil value in the place of
\* the payload: after one of them has succeeded on a node InsertValue put in,
\* GetValue of the tag is nil, and MinimumValue, ExtractMinValue and
\* ExtractValue of that node return nil although the node is in the heap;
\* DecreaseKeyValue and IncreaseKeyValue store the value they are given; and
\* what ExtractValue, the removal Delete makes, returns of a node is the
\* payload GetValue reports.
C34_TagUpdatesDropPayload ==
    /\ [][\A which \in Whiches, tag \in Tags, key \in Keys :
            /\ (LaterDecreaseKey(which, tag, key) \/ LaterIncreaseKey(which, tag, key)) =>
                  /\ Found(HeapAfter(which), tag) = key
                  /\ GetValue(HeapAfter(which), tag).ret.value = NilValue
                  /\ ExtractValue(HeapAfter(which), tag).ret.value = NilValue
                  /\ HeapAfter(which).min = tag =>
                        /\ MinimumValue(HeapAfter(which)).ret.value = NilValue
                        /\ ExtractMinValue(HeapAfter(which)).value = NilValue
                        /\ ExtractMinValue(HeapAfter(which)).heap.num = HeapOf(which).num - 1
            /\ (\/ LaterDecreaseKeyValue(which, tag, key)
                \/ LaterIncreaseKeyValue(which, tag, key)) =>
                  GetValue(HeapAfter(which), tag).ret.value = MkValue(tag, key)]_vars
    /\ [](\A t \in LiveTags(heap) :
            ExtractValue(heap, t).ret.value = GetValue(heap, t).ret.value)

\* after the Union a call by tag has changed the key of the minimum of the
\* target, a node of two or more: its payload is nil
C34_Witness ==
    /\ op.name = "Union"
    /\ ret.err = NoErr
    /\ heap.num >= 2
    /\ heap.min # Nil
    /\ heap.value[heap.min] = NilValue
    /\ \E t \in LiveTags(heap) : heap.value[t] # NilValue

\* how often n is in the list s
Count(s, n) == Cardinality({i \in 1..Len(s) : s[i] = n})

\* n gets to a root by going from parent to parent at most fuel times
RECURSIVE ReachesRoot(_, _, _)
ReachesRoot(h, n, fuel) ==
    IF h.parent[n] = Nil THEN TRUE
    ELSE IF fuel = 0 THEN FALSE
    ELSE ReachesRoot(h, h.parent[n], fuel - 1)

\* C35: the forest is well formed after every completed call: every node of
\* the heap is either once in the root list, with no parent and in no child
\* list, or once in the child list of its parent, a node of the heap, and in
\* no other list; the parents make no cycle; the degree of a node is the length
\* of its child list; and the list handle of a node (self) is the element of
\* the list the node is in.
C35_ForestWellFormed ==
    /\ \A t \in LiveTags(heap) :
        /\ Count(heap.roots, t) = (IF heap.parent[t] = Nil THEN 1 ELSE 0)
        /\ heap.parent[t] # Nil =>
              /\ heap.index[heap.parent[t]] # Nil
              /\ InList(heap.children[heap.parent[t]], t)
        /\ \A i \in 1..Len(heap.children[t]) :
              /\ heap.parent[heap.children[t][i]] = t
              /\ heap.index[heap.children[t][i]] # Nil
              /\ \A k \in 1..(i - 1) : heap.children[t][k] # heap.children[t][i]
        /\ ReachesRoot(heap, t, heap.num)
        /\ heap.degree[t] = Len(heap.children[t])
        /\ heap.self[t] = (IF heap.parent[t] = Nil THEN RootList ELSE heap.parent[t])
        /\ InList(ListOf(heap, t), t)
    /\ \A t \in Nodes \ LiveTags(heap) : heap.children[t] = << >>
    /\ Len(heap.roots) = Cardinality({t \in LiveTags(heap) : heap.parent[t] = Nil})

\* Delete, the third call, has left a marked node and a node three levels
\* below its root
C35_Witness ==
    /\ op.name = "Delete"
    /\ ret.err = NoErr
    /\ calls = 3
    /\ \E t \in LiveTags(heap) : heap.marked[t] /\ heap.parent[t] # Nil
    /\ \E t \in LiveTags(heap) :
          /\ heap.parent[t] # Nil
          /\ heap.parent[heap.parent[t]] # Nil
          /\ heap.parent[heap.parent[heap.parent[t]]] # Nil

\* the Fibonacci numbers: F(1) = F(2) = 1
RECURSIVE Fib(_)
Fib(k) == IF k <= 2 THEN 1 ELSE Fib(k - 1) + Fib(k - 2)

\* the nodes of the subtree of n, n included
RECURSIVE SubtreeSize(_, _)
RECURSIVE SubtreesSize(_, _, _)
SubtreesSize(h, cs, i) ==
    IF i > Len(cs) THEN 0 ELSE SubtreeSize(h, cs[i]) + SubtreesSize(h, cs, i + 1)
SubtreeSize(h, n) == 1 + SubtreesSize(h, h.children[n], 1)

\* C36: the Fibonacci bound of the degrees: after any calls, IncreaseKey (which
\* can cut several children of one node) and Delete included, every node of
\* degree k is the root of a subtree of at least F(k+2) nodes, so that the
\* heap has at least F(k+2) nodes when a node has degree k.
C36_FibonacciBound ==
    \A t \in LiveTags(heap) :
        /\ SubtreeSize(heap, t) >= Fib(heap.degree[t] + 2)
        /\ heap.num >= Fib(heap.degree[t] + 2)

\* Delete, the third call, has left a node of degree 3 with the five nodes
\* the bound asks for and no more
C36_Witness ==
    /\ op.name = "Delete"
    /\ ret.err = NoErr
    /\ calls = 3
    /\ \E t \in LiveTags(heap) :
          heap.degree[t] = 3 /\ SubtreeSize(heap, t) = Fib(5)

\* the 1 bits of the binary representation of n
RECURSIVE PopCount(_)
PopCount(n) == IF n = 0 THEN 0 ELSE (n % 2) + PopCount(n \div 2)

\* C37: when only Insert, InsertValue and ExtractMin are called, right after an
\* ExtractMin that leaves n > 0 nodes every tree is a binomial tree (a node of
\* degree k heads exactly 2^k nodes) and there are as many roots as the binary
\* representation of n has 1 bits: 16 nodes are one tree.
C37_BinomialTrees ==
    (op.name = "ExtractMin" /\ heap.num > 0) =>
        /\ \A t \in LiveTags(heap) : SubtreeSize(heap, t) = 2 ^ heap.degree[t]
        /\ Len(heap.roots) = PopCount(heap.num)
        /\ heap.num = 16 => Len(heap.roots) = 1

\* ExtractMin has left one tree of 16 nodes after an insert and an extraction
\* from MaxNode nodes
C37_Witness ==
    /\ op.name = "ExtractMin"
    /\ calls = 3
    /\ heap.num = 16
    /\ Len(heap.roots) = 1
    /\ heap.degree[heap.roots[1]] = 4

\* C38: after every call Num() = 0, an empty root list, an empty index and an
\* absent minimum go together, so that on a heap with Num() > 0 the minimum
\* that Minimum, ExtractMin and String read is a node of the heap.
C38_EmptyTogether ==
    /\ (heap.num = 0) = (Len(heap.roots) = 0)
    /\ (heap.num = 0) = (\A n \in AllNodes : heap.index[n] = Nil)
    /\ (heap.num = 0) = (heap.min = Nil)
    /\ heap.num > 0 =>
          /\ heap.index[heap.min] = heap.min
          /\ InList(heap.roots, heap.min)
          /\ Minimum(heap).ret.err = NoErr
          /\ ExtractMin(heap).ret.err = NoErr

\* a removal has emptied a heap that held a node
C38_Witness ==
    /\ op.name \in {"ExtractMin", "Delete"}
    /\ ret.err = NoErr
    /\ heap.num = 0
    /\ heap.roots = << >>
    /\ heap.min = Nil
    /\ LiveTags(heap) = {}

\* C39: deleting the current minimum is extracting it: in every non-empty heap
\* the program reaches Delete(t), with t the tag that Minimum() returns, leaves
\* exactly the heap that ExtractMin() leaves (forest, root order, keys, marks,
\* minimum and Num()), and a Delete call that was given the minimum has left
\* that heap. (Return changes no heap: the heaps are those of the initial
\* states and those the calls leave.)
C39_DeleteMinIsExtractMin ==
    /\ []((heap.num > 0 /\ (calls = 0 \/ op.name # "idle")) =>
            Delete(heap, Minimum(heap).ret.tag) =
                [heap |-> ExtractMin(heap).heap, ret |-> RetErr(NoErr)])
    /\ [][(op'.name = "Delete" /\ ret'.err = NoErr /\ heap.num > 0
            /\ LiveTags(heap) \ LiveTags(heap') = {heap.min})
              => heap' = ExtractMin(heap).heap]_vars

\* Delete has run, and in the heap it left the minimum has a marked child and
\* its deletion, like its extraction, links roots
C39_Witness ==
    /\ op.name = "Delete"
    /\ ret.err = NoErr
    /\ heap.num > 1
    /\ heap.children[heap.min] # << >>
    /\ \E i \in 1..Len(heap.children[heap.min]) : heap.marked[heap.children[heap.min][i]]
    /\ Len(Delete(heap, heap.min).heap.roots) <
            Len(heap.roots) - 1 + Len(heap.children[heap.min])
    /\ Delete(heap, heap.min).heap = ExtractMin(heap).heap

\* every bucket that is not empty holds a current root recorded at that bucket
BucketsFresh(h) ==
    \A d \in Degrees : h.treeDegrees[d] # NilElem =>
        /\ h.treeDegrees[d].live
        /\ InList(h.roots, h.treeDegrees[d].n)
        /\ h.position[h.treeDegrees[d].n] = d

\* the first loop of consolidate leaves every bucket empty
ClearedAll(h) == \A d \in Degrees : consolidateClear(h).treeDegrees[d] = NilElem

\* from u, the heap consolidate started from, to h: the nodes that got a
\* parent and the nodes that left the root list are the same roots of u
OnlyRootsLinked(u, h) ==
    LET linked == {t \in LiveTags(h) : h.parent[t] # u.parent[t]}
        left == {t \in LiveTags(u) : InList(u.roots, t) /\ ~InList(h.roots, t)}
    IN  /\ linked = left
        /\ \A t \in linked : u.parent[t] = Nil /\ h.parent[t] # Nil

\* C40: the bucket table that stays in the heap between consolidations holds
\* no stale entry: after every call each bucket d that is not empty holds a
\* node that is in the root list and whose position is d, so the first loop of
\* consolidate empties every bucket, and the consolidation of an ExtractMin or
\* a Delete links and removes from the root list only roots.
C40_NoStaleBucket ==
    /\ [](BucketsFresh(heap) /\ (heap.num > 1 => ClearedAll(extractMinUnlink(heap))))
    /\ [][/\ (op'.name = "ExtractMin" /\ heap.num > 1) =>
                OnlyRootsLinked(extractMinUnlink(heap), heap')
          /\ \A n \in LiveTags(heap) \ LiveTags(heap') :
                (op'.name = "Delete" /\ heap.num > 1) =>
                    LET u == extractMinUnlink(decreaseKey(heap, n, heap.value[n], NegInf).heap)
                    IN  ClearedAll(u) /\ OnlyRootsLinked(u, heap')]_vars

\* between two consolidations: DecreaseKey has cut a node after an earlier
\* removal, three buckets hold roots, a root whose degree is no longer its
\* position is in its bucket, a root is in no bucket, and the first loop of
\* the next consolidation empties every bucket
C40_Witness ==
    /\ op.name = "DecreaseKey"
    /\ ret.err = NoErr
    /\ calls >= 2
    /\ heap.num < 16
    /\ Cardinality({d \in Degrees : heap.treeDegrees[d] # NilElem}) >= 3
    /\ \E d \in Degrees :
          /\ heap.treeDegrees[d] # NilElem
          /\ heap.degree[heap.treeDegrees[d].n] # d
    /\ \E i \in 1..Len(heap.roots) :
          \A d \in Degrees : heap.treeDegrees[d] # Elem(heap.roots[i])
    /\ ClearedAll(extractMinUnlink(heap))

====
